---- MODULE Spec2Model ----
(***************************************************************************)
(* HLS session and segmentation subsystem of openai-edge-tts               *)
(* (app/hls_handler.py) and the playlist endpoint that reads it            *)
(* (app/server.py, serve_hls_playlist).                                    *)
(*                                                                         *)
(* One MP3 HLSSession is modelled with its lock (a non-reentrant           *)
(* threading.Lock): every `with self.lock:` block whose body cannot block  *)
(* is one step guarded by the lock being free; a block that calls out      *)
(* while holding the lock (set_error, _update_playlist's file rewrite)     *)
(* keeps the lock across steps.  File writes and the duration probe run    *)
(* unlocked, one step per system call.                                     *)
(*                                                                         *)
(* Durations are exact rationals in Units of 1/384000 s, the common        *)
(* denominator of the two byte rates of the code (16000 and 3072 bytes/s). *)
(* Python's float rounding of these sums is not modelled.                  *)
(***************************************************************************)
EXTENDS Integers, Naturals, Sequences, FiniteSets, TLC

\* ------------------------------------------------------------ bounds
\* Chunks the upstream stream offers to a directly driven session.
MaxChunks == 60
\* Segments after which the driver stops offering chunks.
MaxSegments == 2
\* finalize() calls the driver makes on one session.
MaxFinalizeCalls == 2
\* Chunks the upstream stream yields to generate_hls_stream.
MaxStreamChunks == 3
\* Playlist requests a client makes.
MaxRequests == 2
\* Chunks two concurrent callers offer to one session.
MaxCallerChunks == 2
\* Sessions create_hls_session makes.
MaxSessions == 2
\* Chunks the caller of a registered session offers to it.
MaxRegChunks == 1
\* Steps of TickSeconds the clock makes.
MaxTicks == 2
\* Iterations of serve_hls_playlist's wait loop that fit in max_wait (20 s
\* of 50 ms sleeps in the code).
MaxPolls == 2
\* Segments the ffmpeg process of an aac session writes.
MaxAacSegments == 2

\* --------------------------------------------------- program constants
\* len(chunk) / (128 * 1000 / 8): bytes per second at 128 kbps.
BYTES_PER_SECOND == 16000
\* file_size / (192 * 128 / 8): the divisor of the fallback estimate.
FALLBACK_BYTES_PER_SECOND == 3072
\* elif chunk_count >= 50: the safety chunk cap.
SAFETY_CHUNK_CAP == 50
\* HLS_CLEANUP_TIMEOUT, in seconds (config.py's default).
HLS_CLEANUP_TIMEOUT == 300
\* The clock's step: ages below, at and over the timeout all occur.
TickSeconds == HLS_CLEANUP_TIMEOUT
\* Units per second: lcm(16000, 3072).
UnitsPerSecond == 24 * BYTES_PER_SECOND
UnitsPerMs == UnitsPerSecond \div 1000

NoThread == "no_thread"
NoError == "None"
Threads == {"t1", "t2"}

\* Inputs: the configured segment duration, in milliseconds.
SegmentDurations == {1000, 1500}
\* Inputs: the upstream chunk stream, a cyclic pattern of chunk byte lengths.
\* <<1000>> is the spec's scenario A, <<1>> its scenario B; 9215 bytes are
\* 3 s less 1/3072 s by the fallback estimate, which prints as 3.000.
ChunkStreams == {<<1>>, <<1000>>, <<16000>>, <<9215, 1>>, <<1, 30000>>}
\* Inputs: what ffprobe may print for a segment, in milliseconds.
ProbeDurationsMs == {400, 5200}
\* Inputs: the messages set_error is called with ("" is str(e) of a bare
\* exception).
Messages == {"boom", ""}

VARIABLES
    \* ---- HLSSession fields
    segment_duration,          \* self.segment_duration, in ms
    current_segment_buffer,    \* self.current_segment_buffer: chunk ids
    current_segment_duration,  \* self.current_segment_duration, in Units
    segment_counter,           \* self.segment_counter
    lock,                      \* holder of self.lock, or NoThread
    completed,                 \* self.completed
    error,                     \* self.error, NoError for None
    playlist,                  \* content of playlist.m3u8: its lines
    segment_files,             \* segment number -> [data, open] in segment_dir
    \* ---- upstream
    stream,                    \* the chunk pattern of the upstream stream
    fed,                       \* chunks taken from the stream so far
    \* ---- per thread
    pc,                        \* program location
    stack,                     \* return locations of the calls in progress
    op,                        \* the session method the thread last called
    chunk,                     \* add_audio_chunk's argument (a chunk id)
    message,                   \* set_error's argument
    buffer_to_write,           \* _finalize_segment's local
    seg_no,                    \* _finalize_segment's local segment_counter
    actual_duration,           \* _finalize_segment's local, in Units
    playlist_lines,            \* _update_playlist's local
    \* ---- history of the run
    snap,                      \* session state when the thread's call began
    accepted,                  \* chunks appended to the buffer so far
    trigger_fired,             \* add_audio_chunk ever set should_finalize
    finalize_calls,            \* finalize() calls the driver has made
    drained,                   \* segment number -> the buffer drained for it
    \* ---- the request thread of serve_hls_playlist
    rpc,                       \* program location
    req,                       \* the handler's locals
    polls,                     \* iterations of the wait loop so far
    requests,                  \* playlist requests made so far
    response,                  \* the last response sent
    \* ---- the registry and the sessions made by create_hls_session
    _sessions,                 \* _sessions: the ids that map to a session
    objects,                   \* the session objects ever made, by id
    fs,                        \* the temporary directories: dir -> content
    tmp_made,                  \* temporary directories made so far
    now,                       \* datetime.now(), in seconds
    jpc,                       \* the janitor thread's location
    current_time,              \* cleanup_old_sessions' local
    removed,                   \* cleanup_old_sessions' return value
    \* ---- the single session above in the registry
    registered,                \* its id is in _sessions
    dir_exists,                \* its temporary directory exists
    \* ---- a call of get_segment_path
    disk,                      \* the regular files that exist, by path
    segment_dir,               \* self.segment_dir of the session called
    segment_filename,          \* the argument, as pathlib splits it
    segment_path,              \* the value returned, NoPath for None
    \* ---- the registry lock and the threads that take it
    _sessions_lock,            \* holder of _sessions_lock, or NoThread
    to_remove,                 \* what is left of its list sessions_to_remove
    popped,                    \* cleanup_old_sessions' local session (its id)
    swept,                     \* sessions whose cleanup() returned in this run
    cpc,                       \* create_hls_session: program location
    session,                   \* create_hls_session's local session (its id)
    got,                       \* what the last get_hls_session call returned
    held                       \* sessions a producer looked up and is adding to

sessVars == <<segment_duration, current_segment_buffer, current_segment_duration,
              segment_counter, lock, completed, error, playlist, segment_files>>
inVars == <<stream, fed>>
thrVars == <<pc, stack, op, chunk, message, buffer_to_write, seg_no, actual_duration,
             playlist_lines>>
histVars == <<snap, accepted, trigger_fired, finalize_calls, drained>>
rdVars == <<rpc, req, polls, requests, response>>
regVars == <<_sessions, objects, fs, tmp_made, now, jpc, current_time, removed>>
pathVars == <<disk, segment_dir, segment_filename, segment_path>>
lockVars == <<_sessions_lock, to_remove, popped, swept, cpc, session, got,
              held>>
evVars == <<registered, dir_exists, pathVars, lockVars>>
vars == <<sessVars, inVars, thrVars, histVars, rdVars, regVars, evVars>>

\* ------------------------------------------------------------ helpers
Line(tag, val) == [tag |-> tag, val |-> val]

\* len(chunk) of the i-th chunk of the stream.
ChunkLen(i) == stream[((i - 1) % Len(stream)) + 1]

RECURSIVE SumLen(_)
\* sum(len(chunk) for chunk in chunks)
SumLen(chunks) ==
    IF chunks = <<>> THEN 0 ELSE ChunkLen(Head(chunks)) + SumLen(Tail(chunks))

\* len(chunk) / (128 * 1000 / 8), in Units.
EstimatedDuration(bytes) == bytes * (UnitsPerSecond \div BYTES_PER_SECOND)

\* Mutant: the fallback assumes twice the byte rate of add_audio_chunk.
FallbackEstimateDoubleRate(bytes) ==
    bytes * (UnitsPerSecond \div (2 * BYTES_PER_SECOND))

\* file_size / (192 * 128 / 8), in Units.
FallbackEstimate(bytes) == bytes * (UnitsPerSecond \div FALLBACK_BYTES_PER_SECOND)

\* int(x) of a duration in Units: whole seconds.
IntSeconds(u) == u \div UnitsPerSecond

\* f'{duration:.3f}': milliseconds, rounded to nearest.
Format3(u) == (2 * u + UnitsPerMs) \div (2 * UnitsPerMs)

\* bool(self.error): None and "" are falsy.
Truthy(e) == e # NoError /\ e # ""

\* _initialize_playlist: the header, target int(segment_duration) + 1.
InitialPlaylist(sd) ==
    << Line("#EXTM3U", 0),
       Line("#EXT-X-VERSION", 3),
       Line("#EXT-X-TARGETDURATION", (sd \div 1000) + 1),
       Line("#EXT-X-PLAYLIST-TYPE:EVENT", 0),
       Line("#EXT-X-MEDIA-SEQUENCE", 0) >>

\* playlist_lines.pop() when the last line is #EXT-X-ENDLIST.
StripEndlist(lines) ==
    IF lines # <<>> /\ lines[Len(lines)].tag = "#EXT-X-ENDLIST"
    THEN SubSeq(lines, 1, Len(lines) - 1)
    ELSE lines

\* Mutant: the target line is set to int(duration) + 1 unconditionally.
RaiseTargetAlways(lines, dur) ==
    [i \in 1..Len(lines) |->
        IF lines[i].tag = "#EXT-X-TARGETDURATION"
        THEN Line("#EXT-X-TARGETDURATION", IntSeconds(dur) + 1)
        ELSE lines[i]]

\* The loop over the lines: a target line below int(duration) + 1 is raised.
RaiseTarget(lines, dur) ==
    [i \in 1..Len(lines) |->
        IF lines[i].tag = "#EXT-X-TARGETDURATION"
           /\ IntSeconds(dur) + 1 > lines[i].val
        THEN Line("#EXT-X-TARGETDURATION", IntSeconds(dur) + 1)
        ELSE lines[i]]

\* The lines _update_playlist writes back, from the lines it read.
UpdatedPlaylist(lines, n, dur) ==
    RaiseTarget(StripEndlist(lines), dur)
        \o << Line("#EXTINF", Format3(dur)), Line("segment.mp3", n) >>

\* ------------------------------------------------- calls and returns
Call(t, entry, ret) ==
    /\ pc' = [pc EXCEPT ![t] = entry]
    /\ stack' = [stack EXCEPT ![t] = <<ret>> \o @]

Return(t) ==
    /\ pc' = [pc EXCEPT ![t] = Head(stack[t])]
    /\ stack' = [stack EXCEPT ![t] = Tail(@)]

Snapshot ==
    [playlist |-> playlist, segment_counter |-> segment_counter,
     segment_files |-> segment_files, completed |-> completed,
     error |-> error, buffered |-> Len(current_segment_buffer)]

\* The locals of serve_hls_playlist before the handler has set them.
NoRequest ==
    [segment_counter |-> 0, is_completed |-> FALSE, has_error |-> FALSE,
     error_message |-> NoError, has_segment_files |-> FALSE, segment |-> 0]

Response(status, err, details, body) ==
    [status |-> status, error |-> err, details |-> details, body |-> body]

NoResponse == Response(0, "", "", <<>>)

\* No session: what get_hls_session returns for an unknown id (None).
NoSession == 0

\* What get_hls_session returns for an id that is not registered, and what
\* its caller finds at that moment.
NothingGot ==
    [session |-> NoSession, constructed |-> FALSE, playlist_exists |-> FALSE]

\* No path: what get_segment_path returns for a file that is not there (None).
NoPath == <<>>

\* A file of the host outside every session directory.
SystemFile == <<"/", "etc", "passwd">>

\* ---------------------------------------------------------------- Init
Init ==
    /\ segment_duration \in SegmentDurations
    /\ current_segment_buffer = <<>>
    /\ current_segment_duration = 0
    /\ segment_counter = 0
    /\ lock = NoThread
    /\ completed = FALSE
    /\ error = NoError
    /\ playlist = InitialPlaylist(segment_duration)
    /\ segment_files = <<>>
    /\ stream \in ChunkStreams
    /\ fed = 0
    /\ pc = [t \in Threads |-> "idle"]
    /\ stack = [t \in Threads |-> <<>>]
    /\ op = [t \in Threads |-> "none"]
    /\ chunk = [t \in Threads |-> 0]
    /\ message = [t \in Threads |-> NoError]
    /\ buffer_to_write = [t \in Threads |-> <<>>]
    /\ seg_no = [t \in Threads |-> 0]
    /\ actual_duration = [t \in Threads |-> 0]
    /\ playlist_lines = [t \in Threads |-> <<>>]
    /\ snap = [t \in Threads |-> Snapshot]
    /\ accepted = 0
    /\ trigger_fired = FALSE
    /\ finalize_calls = 0
    /\ drained = <<>>
    /\ rpc = "idle"
    /\ req = NoRequest
    /\ polls = 0
    /\ requests = 0
    /\ response = NoResponse
    /\ _sessions = {}
    /\ objects = <<>>
    /\ fs = <<>>
    /\ tmp_made = 0
    /\ now = 0
    /\ jpc = "sleep"
    /\ current_time = 0
    /\ removed = 0
    /\ registered = TRUE
    /\ dir_exists = TRUE
    /\ disk = {SystemFile}
    /\ segment_dir = NoPath
    /\ segment_filename = NoPath
    /\ segment_path = NoPath
    /\ _sessions_lock = NoThread
    /\ to_remove = <<>>
    /\ popped = NoSession
    /\ swept = {}
    /\ cpc = "idle"
    /\ session = NoSession
    /\ got = NothingGot
    /\ held = {}

\* ------------------------------------------- HLSSession.add_audio_chunk
\* Mutant: the safety chunk cap is left out.
ShouldFinalizeNoCap(dur, chunk_count) ==
    dur >= segment_duration * UnitsPerMs

\* Mutant: the duration trigger compares with > instead of >=.
ShouldFinalizeStrict(dur, chunk_count) ==
    \/ dur > segment_duration * UnitsPerMs
    \/ chunk_count >= SAFETY_CHUNK_CAP

\* if self.current_segment_duration >= self.segment_duration: ...
\* elif chunk_count >= 50: ...
ShouldFinalize(dur, chunk_count) ==
    \/ dur >= segment_duration * UnitsPerMs
    \/ chunk_count >= SAFETY_CHUNK_CAP

\* Mutant: the chunk is put at the head of the buffer.
AppendChunkAtHead(buffer, c) == <<c>> \o buffer

\* self.current_segment_buffer.append(chunk)
AppendChunk(buffer, c) == Append(buffer, c)

\* The `with self.lock:` block of add_audio_chunk, then the call of
\* _finalize_segment (the method's last statement) when should_finalize.
AddAudioChunk(t) ==
    /\ pc[t] = "add_audio_chunk"
    /\ lock = NoThread
    /\ IF completed \/ Truthy(error)
       THEN /\ Return(t)
            /\ UNCHANGED <<sessVars, accepted, trigger_fired>>
       ELSE LET buf == AppendChunk(current_segment_buffer, chunk[t])
                dur == current_segment_duration
                         + EstimatedDuration(ChunkLen(chunk[t]))
            IN  /\ current_segment_buffer' = buf
                /\ current_segment_duration' = dur
                /\ accepted' = accepted + 1
                /\ IF ShouldFinalize(dur, Len(buf))
                   THEN /\ trigger_fired' = TRUE
                        /\ pc' = [pc EXCEPT ![t] = "_finalize_segment"]
                        /\ UNCHANGED stack
                   ELSE /\ Return(t)
                        /\ UNCHANGED trigger_fired
                /\ UNCHANGED <<segment_duration, segment_counter, lock,
                               completed, error, playlist, segment_files>>
    /\ UNCHANGED <<inVars, op, chunk, message, buffer_to_write, seg_no,
                   actual_duration, playlist_lines, snap, finalize_calls,
                   drained>>
    /\ UNCHANGED rdVars
    /\ UNCHANGED <<regVars, evVars>>

\* ------------------------------------------ HLSSession._finalize_segment
\* Mutant: the counter is advanced twice per segment.
NextSegmentCounterTwice(counter) == counter + 2

\* self.segment_counter += 1
NextSegmentCounter(counter) == counter + 1

\* Mutant: the segment is written and probed inside the `with self.lock:`
\* block.
LockAfterDrainKept(t) == t

\* The session lock once the `with self.lock:` block of _finalize_segment is
\* left, before the file is written.
LockAfterDrain(t) == NoThread

\* The `with self.lock:` block: return on an empty buffer, else swap the
\* buffer for an empty one and take the next segment number.
FinalizeSegment(t) ==
    /\ pc[t] = "_finalize_segment"
    /\ lock = NoThread
    /\ IF current_segment_buffer = <<>>
       THEN /\ Return(t)
            /\ UNCHANGED <<sessVars, buffer_to_write, seg_no, drained>>
       ELSE /\ buffer_to_write' =
                   [buffer_to_write EXCEPT ![t] = current_segment_buffer]
            /\ current_segment_buffer' = <<>>
            /\ current_segment_duration' = 0
            /\ segment_counter' = NextSegmentCounter(segment_counter)
            /\ seg_no' = [seg_no EXCEPT ![t] = segment_counter']
            /\ drained' = [k \in DOMAIN drained \cup {segment_counter'} |->
                               IF k = segment_counter'
                               THEN current_segment_buffer ELSE drained[k]]
            /\ lock' = LockAfterDrain(t)
            /\ pc' = [pc EXCEPT ![t] = "fs_open"]
            /\ UNCHANGED <<stack, segment_duration, completed, error,
                           playlist, segment_files>>
    /\ UNCHANGED <<inVars, op, chunk, message, actual_duration,
                   playlist_lines, snap, accepted, trigger_fired,
                   finalize_calls>>
    /\ UNCHANGED rdVars
    /\ UNCHANGED <<regVars, evVars>>

\* The file segment{n:03d}.mp3 with `file` as its state.
WithFile(files, n, file) ==
    [k \in DOMAIN files \cup {n} |-> IF k = n THEN file ELSE files[k]]

\* open(segment_path, 'wb'): the file exists, empty (in a directory that
\* exists).
OpenSegmentFile(t) ==
    /\ pc[t] = "fs_open"
    /\ dir_exists
    /\ segment_files' =
           WithFile(segment_files, seg_no[t], [data |-> <<>>, open |-> TRUE])
    /\ pc' = [pc EXCEPT ![t] = "fs_write"]
    /\ UNCHANGED <<segment_duration, current_segment_buffer,
                   current_segment_duration, segment_counter, lock, completed,
                   error, playlist>>
    /\ UNCHANGED <<inVars, stack, op, chunk, message, buffer_to_write, seg_no,
                   actual_duration, playlist_lines, histVars>>
    /\ UNCHANGED rdVars
    /\ UNCHANGED <<regVars, evVars>>

\* Mutant: the file is closed without the buffer having been written.
FullyWrittenAtOnce(file, buffer) == TRUE

\* The loop `for chunk in buffer_to_write` has written every chunk.
FullyWritten(file, buffer) == Len(file.data) = Len(buffer)

\* Mutant: every write of the loop writes the buffer's last chunk.
NextChunkToWriteLast(file, buffer) == buffer[Len(buffer)]

\* The chunk the loop `for chunk in buffer_to_write` writes next.
NextChunkToWrite(file, buffer) == buffer[Len(file.data) + 1]

\* for chunk in buffer_to_write: f.write(chunk)
WriteSegmentChunk(t) ==
    /\ pc[t] = "fs_write"
    /\ LET file == segment_files[seg_no[t]]
       IN  /\ ~FullyWritten(file, buffer_to_write[t])
           /\ segment_files' = WithFile(segment_files, seg_no[t],
                  [file EXCEPT !.data =
                      Append(@, NextChunkToWrite(file, buffer_to_write[t]))])
    /\ UNCHANGED <<segment_duration, current_segment_buffer,
                   current_segment_duration, segment_counter, lock, completed,
                   error, playlist>>
    /\ UNCHANGED <<inVars, thrVars, histVars>>
    /\ UNCHANGED rdVars
    /\ UNCHANGED <<regVars, evVars>>

\* The end of the `with open(...)` block: the file is closed, then probed.
CloseSegmentFile(t) ==
    /\ pc[t] = "fs_write"
    /\ LET file == segment_files[seg_no[t]]
       IN  /\ FullyWritten(file, buffer_to_write[t])
           /\ segment_files' = WithFile(segment_files, seg_no[t],
                  [file EXCEPT !.open = FALSE])
    /\ pc' = [pc EXCEPT ![t] = "_get_segment_duration"]
    /\ UNCHANGED <<segment_duration, current_segment_buffer,
                   current_segment_duration, segment_counter, lock, completed,
                   error, playlist>>
    /\ UNCHANGED <<inVars, stack, op, chunk, message, buffer_to_write, seg_no,
                   actual_duration, playlist_lines, histVars>>
    /\ UNCHANGED rdVars
    /\ UNCHANGED <<regVars, evVars>>

\* ---------------------------------------- HLSSession._get_segment_duration
\* ffprobe answers: float(result.stdout.strip()).
GetSegmentDurationProbed(t) ==
    /\ pc[t] = "_get_segment_duration"
    /\ dir_exists
    /\ \E d \in ProbeDurationsMs :
           actual_duration' = [actual_duration EXCEPT ![t] = d * UnitsPerMs]
    /\ pc' = [pc EXCEPT ![t] = "_update_playlist"]
    /\ UNCHANGED <<sessVars, inVars, stack, op, chunk, message,
                   buffer_to_write, seg_no, playlist_lines, histVars>>
    /\ UNCHANGED rdVars
    /\ UNCHANGED <<regVars, evVars>>

Max(a, b) == IF a >= b THEN a ELSE b

\* max(estimated, self.current_segment_duration)
\*     if self.current_segment_duration > 0 else estimated
FallbackDuration(file_size, current) ==
    IF current > 0
    THEN Max(FallbackEstimate(file_size), current)
    ELSE FallbackEstimate(file_size)

\* The except branch (CalledProcessError, ValueError, TimeoutExpired):
\* segment_path.stat() needs the file to be there.
GetSegmentDurationFallback(t) ==
    /\ pc[t] = "_get_segment_duration"
    /\ dir_exists
    /\ actual_duration' = [actual_duration EXCEPT ![t] =
           FallbackDuration(SumLen(segment_files[seg_no[t]].data),
                            current_segment_duration)]
    /\ pc' = [pc EXCEPT ![t] = "_update_playlist"]
    /\ UNCHANGED <<sessVars, inVars, stack, op, chunk, message,
                   buffer_to_write, seg_no, playlist_lines, histVars>>
    /\ UNCHANGED rdVars
    /\ UNCHANGED <<regVars, evVars>>

\* ------------------------------------------- HLSSession._update_playlist
\* Takes the lock, reads the playlist (if self.playlist_path.exists()) and
\* builds the lines to write back.
UpdatePlaylistRead(t) ==
    /\ pc[t] = "_update_playlist"
    /\ lock = NoThread
    /\ lock' = t
    /\ playlist_lines' = [playlist_lines EXCEPT ![t] =
           UpdatedPlaylist(IF dir_exists THEN playlist ELSE <<>>,
                           seg_no[t], actual_duration[t])]
    /\ pc' = [pc EXCEPT ![t] = "upl_open"]
    /\ UNCHANGED <<segment_duration, current_segment_buffer,
                   current_segment_duration, segment_counter, completed,
                   error, playlist, segment_files>>
    /\ UNCHANGED <<inVars, stack, op, chunk, message, buffer_to_write, seg_no,
                   actual_duration, histVars>>
    /\ UNCHANGED rdVars
    /\ UNCHANGED <<regVars, evVars>>

\* open(self.playlist_path, 'w') truncates the file.
UpdatePlaylistTruncate(t) ==
    /\ pc[t] = "upl_open"
    /\ dir_exists
    /\ playlist' = <<>>
    /\ pc' = [pc EXCEPT ![t] = "upl_write"]
    /\ UNCHANGED <<segment_duration, current_segment_buffer,
                   current_segment_duration, segment_counter, lock, completed,
                   error, segment_files>>
    /\ UNCHANGED <<inVars, stack, op, chunk, message, buffer_to_write, seg_no,
                   actual_duration, playlist_lines, histVars>>
    /\ UNCHANGED rdVars
    /\ UNCHANGED <<regVars, evVars>>

\* f.write('\n'.join(playlist_lines) + '\n'), and the lock is released.
UpdatePlaylistWrite(t) ==
    /\ pc[t] = "upl_write"
    /\ playlist' = playlist_lines[t]
    /\ lock' = NoThread
    /\ Return(t)
    /\ UNCHANGED <<segment_duration, current_segment_buffer,
                   current_segment_duration, segment_counter, completed,
                   error, segment_files>>
    /\ UNCHANGED <<inVars, op, chunk, message, buffer_to_write, seg_no,
                   actual_duration, playlist_lines, histVars>>
    /\ UNCHANGED rdVars
    /\ UNCHANGED <<regVars, evVars>>

\* -------------------------------------------------- HLSSession.finalize
\* Mutant: finalize does not look at self.completed.
AlreadyCompletedIgnored(is_completed) == FALSE

\* Mutant: the remainder of the buffer is not drained at finalize.
HasBufferIgnored(buffer) == FALSE

\* if self.completed: return
AlreadyCompleted(is_completed) == is_completed

\* has_buffer = len(self.current_segment_buffer) > 0
HasBuffer(buffer) == Len(buffer) > 0

\* The first `with self.lock:` block, then _finalize_segment if has_buffer.
Finalize(t) ==
    /\ pc[t] = "finalize"
    /\ lock = NoThread
    /\ IF AlreadyCompleted(completed)
       THEN Return(t)
       ELSE IF HasBuffer(current_segment_buffer)
            THEN Call(t, "_finalize_segment", "fin_endlist")
            ELSE /\ pc' = [pc EXCEPT ![t] = "fin_endlist"]
                 /\ UNCHANGED stack
    /\ UNCHANGED <<sessVars, inVars, op, chunk, message, buffer_to_write,
                   seg_no, actual_duration, playlist_lines, histVars>>
    /\ UNCHANGED rdVars
    /\ UNCHANGED <<regVars, evVars>>

\* The second `with self.lock:` block: the completion marker is appended
\* (if self.playlist_path.exists()) and completed is set.
FinalizeEndlist(t) ==
    /\ pc[t] = "fin_endlist"
    /\ lock = NoThread
    /\ playlist' = IF dir_exists
                   THEN Append(playlist, Line("#EXT-X-ENDLIST", 0))
                   ELSE playlist
    /\ completed' = TRUE
    /\ Return(t)
    /\ UNCHANGED <<segment_duration, current_segment_buffer,
                   current_segment_duration, segment_counter, lock, error,
                   segment_files>>
    /\ UNCHANGED <<inVars, op, chunk, message, buffer_to_write, seg_no,
                   actual_duration, playlist_lines, histVars>>
    /\ UNCHANGED rdVars
    /\ UNCHANGED <<regVars, evVars>>

\* ------------------------------------------------- HLSSession.set_error
\* with self.lock: self.error = error; self.finalize()
\* finalize is called with the lock held.
SetError(t) ==
    /\ pc[t] = "set_error"
    /\ lock = NoThread
    /\ lock' = t
    /\ error' = message[t]
    /\ Call(t, "finalize", "set_error_exit")
    /\ UNCHANGED <<segment_duration, current_segment_buffer,
                   current_segment_duration, segment_counter, completed,
                   playlist, segment_files>>
    /\ UNCHANGED <<inVars, op, chunk, message, buffer_to_write, seg_no,
                   actual_duration, playlist_lines, histVars>>
    /\ UNCHANGED rdVars
    /\ UNCHANGED <<regVars, evVars>>

\* The end of set_error's `with self.lock:` block, after finalize returned.
SetErrorExit(t) ==
    /\ pc[t] = "set_error_exit"
    /\ lock = t
    /\ lock' = NoThread
    /\ Return(t)
    /\ UNCHANGED <<segment_duration, current_segment_buffer,
                   current_segment_duration, segment_counter, completed,
                   error, playlist, segment_files>>
    /\ UNCHANGED <<inVars, op, chunk, message, buffer_to_write, seg_no,
                   actual_duration, playlist_lines, histVars>>
    /\ UNCHANGED rdVars
    /\ UNCHANGED <<regVars, evVars>>

\* One step of the session's code on thread t.
SessionStep(t) ==
    \/ AddAudioChunk(t)
    \/ FinalizeSegment(t)
    \/ OpenSegmentFile(t)
    \/ WriteSegmentChunk(t)
    \/ CloseSegmentFile(t)
    \/ GetSegmentDurationProbed(t)
    \/ GetSegmentDurationFallback(t)
    \/ UpdatePlaylistRead(t)
    \/ UpdatePlaylistTruncate(t)
    \/ UpdatePlaylistWrite(t)
    \/ Finalize(t)
    \/ FinalizeEndlist(t)
    \/ SetError(t)

\* ------------------------------------------------ a caller of the session
\* The thread calls session.add_audio_chunk with the stream's next chunk.
DriverAddAudioChunk(t) ==
    /\ pc[t] = "idle"
    /\ fed < MaxChunks
    /\ segment_counter < MaxSegments
    /\ fed' = fed + 1
    /\ chunk' = [chunk EXCEPT ![t] = fed + 1]
    /\ op' = [op EXCEPT ![t] = "add_audio_chunk"]
    /\ snap' = [snap EXCEPT ![t] = Snapshot]
    /\ Call(t, "add_audio_chunk", "idle")
    /\ UNCHANGED <<sessVars, stream, message, buffer_to_write, seg_no,
                   actual_duration, playlist_lines, accepted, trigger_fired,
                   finalize_calls, drained>>
    /\ UNCHANGED rdVars
    /\ UNCHANGED <<regVars, evVars>>

\* The thread calls session.finalize().
DriverFinalize(t) ==
    /\ pc[t] = "idle"
    /\ finalize_calls < MaxFinalizeCalls
    /\ finalize_calls' = finalize_calls + 1
    /\ op' = [op EXCEPT ![t] = "finalize"]
    /\ snap' = [snap EXCEPT ![t] = Snapshot]
    /\ Call(t, "finalize", "idle")
    /\ UNCHANGED <<sessVars, inVars, chunk, message, buffer_to_write, seg_no,
                   actual_duration, playlist_lines, accepted, trigger_fired,
                   drained>>
    /\ UNCHANGED rdVars
    /\ UNCHANGED <<regVars, evVars>>

\* The thread calls session.set_error(m).
DriverSetError(t) ==
    /\ pc[t] = "idle"
    /\ \E m \in Messages : message' = [message EXCEPT ![t] = m]
    /\ op' = [op EXCEPT ![t] = "set_error"]
    /\ snap' = [snap EXCEPT ![t] = Snapshot]
    /\ Call(t, "set_error", "idle")
    /\ UNCHANGED <<sessVars, inVars, chunk, buffer_to_write, seg_no,
                   actual_duration, playlist_lines, accepted, trigger_fired,
                   finalize_calls, drained>>
    /\ UNCHANGED rdVars
    /\ UNCHANGED <<regVars, evVars>>

\* One caller drives the session through its public methods.
Next ==
    \/ SessionStep("t1")
    \/ DriverAddAudioChunk("t1")
    \/ DriverFinalize("t1")
    \/ DriverSetError("t1")

Spec == Init /\ [][Next]_vars

\* ----------------------------------------------------- generate_hls_stream
\* session = get_hls_session(session_id): the producer thread starts.
GenStart(t) ==
    /\ pc[t] = "idle"
    /\ op[t] = "none"
    /\ registered
    /\ op' = [op EXCEPT ![t] = "generate_hls_stream"]
    /\ pc' = [pc EXCEPT ![t] = "gen_next"]
    /\ UNCHANGED <<sessVars, inVars, stack, chunk, message, buffer_to_write,
                   seg_no, actual_duration, playlist_lines, histVars, rdVars>>
    /\ UNCHANGED <<regVars, evVars>>

\* for chunk in generate_speech_stream(...): current_session.add_audio_chunk(chunk)
GenNextChunk(t) ==
    /\ pc[t] = "gen_next"
    /\ registered
    /\ fed < MaxStreamChunks
    /\ fed' = fed + 1
    /\ chunk' = [chunk EXCEPT ![t] = fed + 1]
    /\ op' = [op EXCEPT ![t] = "add_audio_chunk"]
    /\ snap' = [snap EXCEPT ![t] = Snapshot]
    /\ Call(t, "add_audio_chunk", "gen_next")
    /\ UNCHANGED <<sessVars, stream, message, buffer_to_write, seg_no,
                   actual_duration, playlist_lines, accepted, trigger_fired,
                   finalize_calls, drained, rdVars>>
    /\ UNCHANGED <<regVars, evVars>>

\* The stream is exhausted: final_session.finalize()
GenStreamEnds(t) ==
    /\ pc[t] = "gen_next"
    /\ registered
    /\ op' = [op EXCEPT ![t] = "finalize"]
    /\ snap' = [snap EXCEPT ![t] = Snapshot]
    /\ Call(t, "finalize", "gen_done")
    /\ UNCHANGED <<sessVars, inVars, chunk, message, buffer_to_write, seg_no,
                   actual_duration, playlist_lines, accepted, trigger_fired,
                   finalize_calls, drained, rdVars>>
    /\ UNCHANGED <<regVars, evVars>>

\* An exception reaches `except Exception as e` of generate_hls_stream:
\* error_msg = str(e), with the lock released if the raising block held it.
Raise(t, msg) ==
    /\ pc' = [pc EXCEPT ![t] = "gen_except"]
    /\ stack' = [stack EXCEPT ![t] = <<>>]
    /\ message' = [message EXCEPT ![t] = msg]

\* generate_speech_stream raises while the loop asks for the next chunk.
GenStreamRaises(t) ==
    /\ pc[t] = "gen_next"
    /\ Raise(t, "upstream failed")
    /\ UNCHANGED <<sessVars, inVars, op, chunk, buffer_to_write, seg_no,
                   actual_duration, playlist_lines, histVars, rdVars>>
    /\ UNCHANGED <<regVars, evVars>>

\* open(segment_path, 'wb') raises: no file is created.
OpenSegmentFileRaises(t) ==
    /\ pc[t] = "fs_open"
    /\ Raise(t, "open failed")
    /\ UNCHANGED <<sessVars, inVars, op, chunk, buffer_to_write, seg_no,
                   actual_duration, playlist_lines, histVars, rdVars>>
    /\ UNCHANGED <<regVars, evVars>>

\* f.write(chunk) raises: the `with open(...)` block closes the file with
\* the chunks written so far.
WriteSegmentChunkRaises(t) ==
    /\ pc[t] = "fs_write"
    /\ LET file == segment_files[seg_no[t]]
       IN  /\ ~FullyWritten(file, buffer_to_write[t])
           /\ segment_files' = WithFile(segment_files, seg_no[t],
                  [file EXCEPT !.open = FALSE])
    /\ Raise(t, "write failed")
    /\ UNCHANGED <<segment_duration, current_segment_buffer,
                   current_segment_duration, segment_counter, lock, completed,
                   error, playlist>>
    /\ UNCHANGED <<inVars, op, chunk, buffer_to_write, seg_no,
                   actual_duration, playlist_lines, histVars, rdVars>>
    /\ UNCHANGED <<regVars, evVars>>

\* str(e) of the FileNotFoundError subprocess.run raises when there is no
\* ffprobe executable.
ProbeToolMissing == "No such file or directory: 'ffprobe'"

\* subprocess.run raises FileNotFoundError: it is none of CalledProcessError,
\* ValueError, TimeoutExpired, so _get_segment_duration does not catch it.
GetSegmentDurationRaises(t) ==
    /\ pc[t] = "_get_segment_duration"
    /\ Raise(t, ProbeToolMissing)
    /\ UNCHANGED <<sessVars, inVars, op, chunk, buffer_to_write, seg_no,
                   actual_duration, playlist_lines, histVars, rdVars>>
    /\ UNCHANGED <<regVars, evVars>>

\* err_sess = get_hls_session(session_id); err_sess.set_error(error_msg)
GenExcept(t) ==
    /\ pc[t] = "gen_except"
    /\ registered
    /\ op' = [op EXCEPT ![t] = "set_error"]
    /\ snap' = [snap EXCEPT ![t] = Snapshot]
    /\ Call(t, "set_error", "gen_done")
    /\ UNCHANGED <<sessVars, inVars, chunk, message, buffer_to_write, seg_no,
                   actual_duration, playlist_lines, accepted, trigger_fired,
                   finalize_calls, drained, rdVars>>
    /\ UNCHANGED <<regVars, evVars>>

\* One step of the producer thread.
GenStep(t) ==
    \/ GenStart(t)
    \/ GenNextChunk(t)
    \/ GenStreamEnds(t)
    \/ GenStreamRaises(t)
    \/ OpenSegmentFileRaises(t)
    \/ WriteSegmentChunkRaises(t)
    \/ GetSegmentDurationRaises(t)
    \/ GenExcept(t)
    \/ SessionStep(t)

\* ----------------------------------------------------- serve_hls_playlist
\* session = get_hls_session(session_id); the playlist file exists.
ServeStart ==
    /\ rpc = "idle"
    /\ requests < MaxRequests
    /\ registered
    /\ dir_exists
    /\ requests' = requests + 1
    /\ rpc' = "read_state"
    /\ req' = NoRequest
    /\ polls' = 0
    /\ response' = NoResponse
    /\ UNCHANGED <<sessVars, inVars, thrVars, histVars>>
    /\ UNCHANGED <<regVars, evVars>>

\* with session.lock: segment_counter, is_completed, has_error, error_message
ServeReadState ==
    /\ rpc = "read_state"
    /\ lock = NoThread
    /\ req' = [req EXCEPT !.segment_counter = segment_counter,
                          !.is_completed = completed,
                          !.has_error = (error # NoError),
                          !.error_message = error]
    /\ rpc' = "glob"
    /\ UNCHANGED <<sessVars, inVars, thrVars, histVars, polls, requests,
                   response>>
    /\ UNCHANGED <<regVars, evVars>>

\* segment_files = list(session.segment_dir.glob("segment*.*"))
ServeGlob ==
    /\ rpc = "glob"
    /\ req' = [req EXCEPT !.has_segment_files =
                              (dir_exists /\ DOMAIN segment_files # {})]
    /\ rpc' = "read_playlist"
    /\ UNCHANGED <<sessVars, inVars, thrVars, histVars, polls, requests,
                   response>>
    /\ UNCHANGED <<regVars, evVars>>

\* A line not starting with # that names a segment.
PlaylistHasSegments(lines) ==
    \E i \in 1..Len(lines) : lines[i].tag = "segment.mp3"

\* '#EXTINF' in content_now
PlaylistHasExtinf(lines) ==
    \E i \in 1..Len(lines) : lines[i].tag = "#EXTINF"

\* Mutant: the handler takes the playlist to have segments without looking.
HasSegmentsAssumed(r, lines) == TRUE

\* has_segments = segment_counter > 0 and has_segment_files
\*                and playlist_has_segments
HasSegments(r, lines) ==
    /\ r.segment_counter > 0
    /\ r.has_segment_files
    /\ PlaylistHasSegments(lines)

\* The playlist is read (a failing open is caught and leaves
\* playlist_has_segments False) and the handler decides: the error response,
\* the empty-playlist response, the wait loop, or serving the file.
ServeReadPlaylist ==
    /\ rpc = "read_playlist"
    /\ LET has_segments ==
               HasSegments(req, IF dir_exists THEN playlist ELSE <<>>)
       IN  IF req.has_error
           THEN /\ response' = Response(500, "HLS generation failed",
                                        req.error_message, <<>>)
                /\ rpc' = "idle"
           ELSE IF req.is_completed /\ ~has_segments
           THEN /\ response' = Response(500,
                        "HLS playlist is empty (no segments)", "", <<>>)
                /\ rpc' = "idle"
           ELSE IF ~has_segments /\ ~req.is_completed
           THEN /\ rpc' = "wait"
                /\ UNCHANGED response
           ELSE /\ rpc' = "send"
                /\ UNCHANGED response
    /\ UNCHANGED <<sessVars, inVars, thrVars, histVars, req, polls, requests>>
    /\ UNCHANGED <<regVars, evVars>>

\* The wait loop's `with session.lock:` block and the tests after it.
ServeWaitPoll ==
    /\ rpc = "wait"
    /\ lock = NoThread
    /\ rpc' = IF error # NoError \/ completed THEN "revalidate"
              ELSE IF segment_counter > 0 THEN "wait_read"
              ELSE "sleep"
    /\ UNCHANGED <<sessVars, inVars, thrVars, histVars, req, polls, requests,
                   response>>
    /\ UNCHANGED <<regVars, evVars>>

\* The loop reads the playlist and leaves when it holds an #EXTINF line.
ServeWaitReadPlaylist ==
    /\ rpc = "wait_read"
    /\ rpc' = IF dir_exists /\ PlaylistHasExtinf(playlist)
              THEN "revalidate" ELSE "sleep"
    /\ UNCHANGED <<sessVars, inVars, thrVars, histVars, req, polls, requests,
                   response>>
    /\ UNCHANGED <<regVars, evVars>>

\* _t.sleep(0.05), and max_wait has not passed.
ServeSleep ==
    /\ rpc = "sleep"
    /\ polls < MaxPolls
    /\ polls' = polls + 1
    /\ rpc' = "wait"
    /\ UNCHANGED <<sessVars, inVars, thrVars, histVars, req, requests,
                   response>>
    /\ UNCHANGED <<regVars, evVars>>

\* _t.sleep(0.05), and (_t.time() - start_wait) > max_wait: the 503.
ServeTimeout ==
    /\ rpc = "sleep"
    /\ response' = Response(503, "Playlist not yet available", "generating",
                            <<>>)
    /\ rpc' = "idle"
    /\ UNCHANGED <<sessVars, inVars, thrVars, histVars, req, polls, requests>>
    /\ UNCHANGED <<regVars, evVars>>

\* "Re-validate state after waiting", under the lock.
ServeRevalidate ==
    /\ rpc = "revalidate"
    /\ lock = NoThread
    /\ IF error # NoError
       THEN /\ response' = Response(500, "HLS generation failed", error, <<>>)
            /\ rpc' = "idle"
       ELSE IF segment_counter = 0
       THEN /\ response' = Response(500,
                    "HLS playlist is empty (no segments)", "", <<>>)
            /\ rpc' = "idle"
       ELSE /\ rpc' = "send"
            /\ UNCHANGED response
    /\ UNCHANGED <<sessVars, inVars, thrVars, histVars, req, polls, requests>>
    /\ UNCHANGED <<regVars, evVars>>

\* send_file(session.playlist_path): the file as it is now.
ServeSend ==
    /\ rpc = "send"
    /\ dir_exists
    /\ response' = Response(200, "", "", playlist)
    /\ rpc' = "idle"
    /\ UNCHANGED <<sessVars, inVars, thrVars, histVars, req, polls, requests>>
    /\ UNCHANGED <<regVars, evVars>>

\* One step of the request thread.
ServeStep ==
    \/ ServeStart
    \/ ServeReadState
    \/ ServeGlob
    \/ ServeReadPlaylist
    \/ ServeWaitPoll
    \/ ServeWaitReadPlaylist
    \/ ServeSleep
    \/ ServeTimeout
    \/ ServeRevalidate
    \/ ServeSend

\* The producer thread of one HLS request and a client polling its playlist.
NextGen == GenStep("t1") \/ ServeStep

SpecGen == Init /\ [][NextGen]_vars

\* Both are threads of the server process: each keeps being scheduled.
FairGen == SpecGen /\ WF_vars(GenStep("t1")) /\ WF_vars(ServeStep)

\* ------------------------------------------------ the session is evicted
\* cleanup_old_sessions finds the session older than the timeout: it pops
\* it from _sessions and cleans it up, which removes its directory.
JanitorEvicts ==
    /\ registered
    /\ registered' = FALSE
    /\ dir_exists' = FALSE
    /\ UNCHANGED <<sessVars, inVars, thrVars, histVars, rdVars, regVars,
                   pathVars, lockVars>>

\* generate_hls_stream: session = get_hls_session(session_id) is None: return.
GenStartGone(t) ==
    /\ pc[t] = "idle"
    /\ op[t] = "none"
    /\ ~registered
    /\ op' = [op EXCEPT ![t] = "generate_hls_stream"]
    /\ pc' = [pc EXCEPT ![t] = "gen_done"]
    /\ UNCHANGED <<sessVars, inVars, stack, chunk, message, buffer_to_write,
                   seg_no, actual_duration, playlist_lines, histVars, rdVars,
                   regVars, evVars>>

\* The loop finds current_session None and breaks, or the stream has ended;
\* final_session is None and the function returns.
GenLoopGone(t) ==
    /\ pc[t] = "gen_next"
    /\ ~registered
    /\ pc' = [pc EXCEPT ![t] = "gen_done"]
    /\ UNCHANGED <<sessVars, inVars, stack, op, chunk, message,
                   buffer_to_write, seg_no, actual_duration, playlist_lines,
                   histVars, rdVars, regVars, evVars>>

\* The handler finds err_sess None and the function returns.
GenExceptGone(t) ==
    /\ pc[t] = "gen_except"
    /\ ~registered
    /\ pc' = [pc EXCEPT ![t] = "gen_done"]
    /\ UNCHANGED <<sessVars, inVars, stack, op, chunk, message,
                   buffer_to_write, seg_no, actual_duration, playlist_lines,
                   histVars, rdVars, regVars, evVars>>

\* str(e) of the FileNotFoundError for a path in a removed directory.
DirectoryGone == "No such file or directory"

\* ffprobe fails on the removed file (CalledProcessError), and in the except
\* branch segment_path.stat() raises FileNotFoundError.
GetSegmentDurationStatRaises(t) ==
    /\ pc[t] = "_get_segment_duration"
    /\ ~dir_exists
    /\ Raise(t, DirectoryGone)
    /\ UNCHANGED <<sessVars, inVars, op, chunk, buffer_to_write, seg_no,
                   actual_duration, playlist_lines, histVars, rdVars, regVars,
                   evVars>>

\* open(self.playlist_path, 'w') raises FileNotFoundError in the removed
\* directory; the `with self.lock:` block releases the lock.
UpdatePlaylistOpenRaises(t) ==
    /\ pc[t] = "upl_open"
    /\ ~dir_exists
    /\ lock' = NoThread
    /\ Raise(t, DirectoryGone)
    /\ UNCHANGED <<segment_duration, current_segment_buffer,
                   current_segment_duration, segment_counter, completed,
                   error, playlist, segment_files>>
    /\ UNCHANGED <<inVars, op, chunk, buffer_to_write, seg_no,
                   actual_duration, playlist_lines, histVars, rdVars, regVars,
                   evVars>>

\* The producer thread's steps that only an evicted session has.
GenEvictedStep(t) ==
    \/ GenStartGone(t)
    \/ GenLoopGone(t)
    \/ GenExceptGone(t)
    \/ GetSegmentDurationStatRaises(t)
    \/ UpdatePlaylistOpenRaises(t)

\* current_session = get_hls_session(session_id) finds the session, for the
\* stream's next chunk; the registry lock is released before the call.
GenHoldsCurrent(t) ==
    /\ pc[t] = "gen_next"
    /\ registered
    /\ fed < MaxStreamChunks
    /\ fed' = fed + 1
    /\ chunk' = [chunk EXCEPT ![t] = fed + 1]
    /\ pc' = [pc EXCEPT ![t] = "gen_add"]
    /\ UNCHANGED <<sessVars, stream, stack, op, message, buffer_to_write,
                   seg_no, actual_duration, playlist_lines, histVars, rdVars,
                   regVars, evVars>>

\* current_session.add_audio_chunk(chunk), on the object the lookup returned.
GenAddsChunk(t) ==
    /\ pc[t] = "gen_add"
    /\ op' = [op EXCEPT ![t] = "add_audio_chunk"]
    /\ snap' = [snap EXCEPT ![t] = Snapshot]
    /\ Call(t, "add_audio_chunk", "gen_next")
    /\ UNCHANGED <<sessVars, inVars, chunk, message, buffer_to_write, seg_no,
                   actual_duration, playlist_lines, accepted, trigger_fired,
                   finalize_calls, drained, rdVars, regVars, evVars>>

\* The stream is exhausted: final_session = get_hls_session(session_id) finds
\* the session.
GenHoldsFinal(t) ==
    /\ pc[t] = "gen_next"
    /\ registered
    /\ pc' = [pc EXCEPT ![t] = "gen_finalize"]
    /\ UNCHANGED <<sessVars, inVars, stack, op, chunk, message,
                   buffer_to_write, seg_no, actual_duration, playlist_lines,
                   histVars, rdVars, regVars, evVars>>

\* final_session.finalize(), on the object the lookup returned.
GenFinalizes(t) ==
    /\ pc[t] = "gen_finalize"
    /\ op' = [op EXCEPT ![t] = "finalize"]
    /\ snap' = [snap EXCEPT ![t] = Snapshot]
    /\ Call(t, "finalize", "gen_done")
    /\ UNCHANGED <<sessVars, inVars, chunk, message, buffer_to_write, seg_no,
                   actual_duration, playlist_lines, accepted, trigger_fired,
                   finalize_calls, drained, rdVars, regVars, evVars>>

\* The handler: err_sess = get_hls_session(session_id) finds the session.
GenHoldsErr(t) ==
    /\ pc[t] = "gen_except"
    /\ registered
    /\ pc' = [pc EXCEPT ![t] = "gen_set_error"]
    /\ UNCHANGED <<sessVars, inVars, stack, op, chunk, message,
                   buffer_to_write, seg_no, actual_duration, playlist_lines,
                   histVars, rdVars, regVars, evVars>>

\* err_sess.set_error(error_msg), on the object the lookup returned.
GenSetsError(t) ==
    /\ pc[t] = "gen_set_error"
    /\ op' = [op EXCEPT ![t] = "set_error"]
    /\ snap' = [snap EXCEPT ![t] = Snapshot]
    /\ Call(t, "set_error", "gen_done")
    /\ UNCHANGED <<sessVars, inVars, chunk, message, buffer_to_write, seg_no,
                   actual_duration, playlist_lines, accepted, trigger_fired,
                   finalize_calls, drained, rdVars, regVars, evVars>>

\* One step of the producer thread next to the janitor: each lookup in
\* _sessions and the call on its result are two steps, and the janitor can
\* run between them.
GenRacedStep(t) ==
    \/ GenStart(t)
    \/ GenHoldsCurrent(t)
    \/ GenAddsChunk(t)
    \/ GenHoldsFinal(t)
    \/ GenFinalizes(t)
    \/ GenStreamRaises(t)
    \/ OpenSegmentFileRaises(t)
    \/ WriteSegmentChunkRaises(t)
    \/ GetSegmentDurationRaises(t)
    \/ GenHoldsErr(t)
    \/ GenSetsError(t)
    \/ SessionStep(t)

\* What Flask answers when send_file is given a path that does not exist:
\* the library decides between not found and a server error.
MissingFileStatuses == {404, 500}

\* serve_hls_playlist or serve_hls_segment for an id that is not in
\* _sessions: 404 'Session not found'; serve_hls_playlist for a session that
\* was evicted right after the lookup: 404 'Playlist not yet available'.
ServeNotFound ==
    /\ rpc = "idle"
    /\ requests < MaxRequests
    /\ ~registered
    /\ requests' = requests + 1
    /\ req' = NoRequest
    /\ polls' = 0
    /\ \E msg \in {"Session not found", "Playlist not yet available"} :
           response' = Response(404, msg, "", <<>>)
    /\ UNCHANGED <<sessVars, inVars, thrVars, histVars, rpc, regVars, evVars>>

\* send_file(session.playlist_path) when the file is gone.
ServeSendGone ==
    /\ rpc = "send"
    /\ ~dir_exists
    /\ \E status \in MissingFileStatuses :
           response' = Response(status, "send_file", "", <<>>)
    /\ rpc' = "idle"
    /\ UNCHANGED <<sessVars, inVars, thrVars, histVars, req, polls, requests,
                   regVars, evVars>>

\* ------------------------------------------------------ serve_hls_segment
\* Inputs: the segment numbers a client asks for: one the session may have
\* and one it never has.
SegmentNames == {1, MaxStreamChunks + 1}

\* session = get_hls_session(session_id), for segment{n:03d}.mp3
ServeSegmentStart ==
    /\ rpc = "idle"
    /\ requests < MaxRequests
    /\ registered
    /\ requests' = requests + 1
    /\ \E n \in SegmentNames : req' = [NoRequest EXCEPT !.segment = n]
    /\ polls' = 0
    /\ response' = NoResponse
    /\ rpc' = "get_segment_path"
    /\ UNCHANGED <<sessVars, inVars, thrVars, histVars, regVars, evVars>>

\* HLSSession.get_segment_path: segment_path if segment_path.exists() else None
GetSegmentPath(n) ==
    IF dir_exists /\ n \in DOMAIN segment_files THEN n ELSE NoSession

\* segment_path = session.get_segment_path(segment_filename); 404 if None.
ServeSegmentPath ==
    /\ rpc = "get_segment_path"
    /\ IF GetSegmentPath(req.segment) = NoSession
       THEN /\ response' = Response(404, "Segment not found", "", <<>>)
            /\ rpc' = "idle"
       ELSE /\ rpc' = "send_segment"
            /\ UNCHANGED response
    /\ UNCHANGED <<sessVars, inVars, thrVars, histVars, req, polls, requests,
                   regVars, evVars>>

\* send_file(segment_path): the file's bytes as they are now.
ServeSegmentSend ==
    /\ rpc = "send_segment"
    /\ IF dir_exists
       THEN response' = Response(200, "", "",
                [i \in 1..Len(segment_files[req.segment].data) |->
                     Line("bytes", segment_files[req.segment].data[i])])
       ELSE \E status \in MissingFileStatuses :
                response' = Response(status, "send_file", "", <<>>)
    /\ rpc' = "idle"
    /\ UNCHANGED <<sessVars, inVars, thrVars, histVars, req, polls, requests,
                   regVars, evVars>>

\* The request thread's steps for segments and for an evicted session.
ServeEvictedStep ==
    \/ ServeNotFound
    \/ ServeSendGone
    \/ ServeSegmentStart
    \/ ServeSegmentPath
    \/ ServeSegmentSend

\* The producer thread, a client asking for the playlist and for segments,
\* and the janitor evicting the session at any moment.
NextEvict ==
    \/ GenRacedStep("t1")
    \/ GenEvictedStep("t1")
    \/ ServeStep
    \/ ServeEvictedStep
    \/ JanitorEvicts

\* The session the janitor evicts: a target of one second.
InitEvict ==
    /\ Init
    /\ segment_duration = 1000
    /\ stream \in {<<1000>>, <<16000>>}

SpecEvict == InitEvict /\ [][NextEvict]_vars

\* ------------------------------------------- two callers of one session
\* A thread calls session.add_audio_chunk with the stream's next chunk.
CallerAddAudioChunk(t) ==
    /\ pc[t] = "idle"
    /\ fed < MaxCallerChunks
    /\ fed' = fed + 1
    /\ chunk' = [chunk EXCEPT ![t] = fed + 1]
    /\ op' = [op EXCEPT ![t] = "add_audio_chunk"]
    /\ snap' = [snap EXCEPT ![t] = Snapshot]
    /\ Call(t, "add_audio_chunk", "idle")
    /\ UNCHANGED <<sessVars, stream, message, buffer_to_write, seg_no,
                   actual_duration, playlist_lines, accepted, trigger_fired,
                   finalize_calls, drained, rdVars>>
    /\ UNCHANGED <<regVars, evVars>>

\* Two threads call the session's public methods concurrently.
NextTwo ==
    \E t \in Threads :
        \/ SessionStep(t)
        \/ CallerAddAudioChunk(t)
        \/ DriverFinalize(t)
        \/ DriverSetError(t)

\* The session the two callers share: a target of one second and a stream
\* whose chunks either reach the target one by one or never do.
InitTwo ==
    /\ Init
    /\ segment_duration = 1000
    /\ stream \in {<<1000>>, <<16000>>}

SpecTwo == InitTwo /\ [][NextTwo]_vars

\* ------------------------------------------- the registry of sessions
\* Everything of the single session above and of its request thread.
oneVars == <<sessVars, inVars, thrVars, histVars, rdVars, evVars>>

\* dict[k] = v
Put(dict, k, v) == [x \in DOMAIN dict \cup {k} |-> IF x = k THEN v ELSE dict[x]]

\* The dict without the keys of ks.
Without(dict, ks) == [x \in DOMAIN dict \ ks |-> dict[x]]

SessionIds == 1..MaxSessions
Codecs == {"mp3", "aac"}

\* str(uuid.uuid4()): an id that no session was made with.
NewSessionId(made) == made + 1

\* Mutant: every session gets the same temporary directory.
NewTempDirShared(made) == 1

\* tempfile.TemporaryDirectory(): a directory that did not exist.
NewTempDir(made) == made + 1

\* HLSSession.__init__ and HLSSessionFFmpeg.__init__: the fields of a new
\* session object (those of the other variant stay at their initial value);
\* offered counts the chunks its caller has passed to add_audio_chunk.
NewSession(codec, dir, t) ==
    [kind |-> codec, segment_dir |-> dir, created_at |-> t,
     completed |-> FALSE, error |-> NoError, lock |-> NoThread,
     current_segment_buffer |-> <<>>, current_segment_duration |-> 0,
     segment_counter |-> 0,
     stdin_closed |-> FALSE, proc_exited |-> FALSE, piped |-> 0,
     offered |-> 0]

\* Mutant: __init__ leaves the playlist unwritten.
NewDirHeaderless(codec) == [playlist |-> <<>>, files |-> <<>>]

\* The directory of a new session: _initialize_playlist writes the header
\* for mp3; for aac the ffmpeg process writes the playlist later.
NewDir(codec) ==
    [playlist |-> IF codec = "mp3" THEN InitialPlaylist(segment_duration)
                  ELSE <<>>,
     files |-> <<>>]

\* get_hls_session(session_id): _sessions.get(session_id)
GetHlsSession(id) == IF id \in _sessions THEN id ELSE NoSession

\* create_hls_session(segment_duration, codec)
CreateHlsSession ==
    /\ tmp_made < MaxSessions
    /\ \E codec \in Codecs :
        LET id == NewSessionId(tmp_made)
            dir == NewTempDir(tmp_made)
        IN  /\ objects' = Put(objects, id, NewSession(codec, dir, now))
            /\ fs' = Put(fs, dir, NewDir(codec))
            /\ tmp_made' = tmp_made + 1
            /\ _sessions' = _sessions \cup {id}
    /\ UNCHANGED <<oneVars, now, jpc, current_time, removed>>

\* Inputs: what ffprobe prints for the segments of registered sessions, in
\* milliseconds.
RegProbeDurationMs == 5200

\* What _get_segment_duration may return for a segment written from buf:
\* what ffprobe prints, or the fallback estimate.
SegmentDurationsOf(buf) ==
    {RegProbeDurationMs * UnitsPerMs, FallbackDuration(SumLen(buf), 0)}

\* _finalize_segment on session object o: the buffer is swapped for an empty
\* one and the counter advanced.
Drained(o) ==
    [o EXCEPT !.current_segment_buffer = <<>>,
              !.current_segment_duration = 0,
              !.segment_counter = NextSegmentCounter(@)]

\* _finalize_segment on the directory: segment n is written from buf and
\* appended to the playlist with duration dur.
DirWithSegment(dir, n, buf, dur) ==
    [playlist |-> UpdatedPlaylist(dir.playlist, n, dur),
     files |-> Put(dir.files, n, [data |-> buf, open |-> FALSE])]

\* HLSSession.add_audio_chunk, the whole call with _finalize_segment.
Mp3AddAudioChunk(id) ==
    /\ GetHlsSession(id) = id
    /\ objects[id].kind = "mp3"
    /\ objects[id].lock = NoThread
    /\ objects[id].offered < MaxRegChunks
    /\ LET o == [objects[id] EXCEPT !.offered = @ + 1]
           dir == fs[o.segment_dir]
           buf == AppendChunk(o.current_segment_buffer, o.offered)
           dur == o.current_segment_duration
                    + EstimatedDuration(ChunkLen(o.offered))
       IN  IF o.completed \/ Truthy(o.error)
           THEN /\ objects' = [objects EXCEPT ![id] = o]
                /\ UNCHANGED fs
           ELSE IF ShouldFinalize(dur, Len(buf))
           THEN /\ objects' = [objects EXCEPT ![id] =
                       Drained([o EXCEPT !.current_segment_buffer = buf])]
                /\ \E d \in SegmentDurationsOf(buf) :
                       fs' = [fs EXCEPT ![o.segment_dir] =
                           DirWithSegment(dir, NextSegmentCounter(o.segment_counter),
                                          buf, d)]
           ELSE /\ objects' = [objects EXCEPT ![id] =
                       [o EXCEPT !.current_segment_buffer = buf,
                                 !.current_segment_duration = dur]]
                /\ UNCHANGED fs
    /\ UNCHANGED <<oneVars, _sessions, tmp_made, now, jpc, current_time,
                   removed>>

\* HLSSession.finalize, the whole call.
Mp3Finalize(id) ==
    /\ GetHlsSession(id) = id
    /\ objects[id].kind = "mp3"
    /\ objects[id].lock = NoThread
    /\ LET o == objects[id]
           dir == fs[o.segment_dir]
           buf == o.current_segment_buffer
           closed(d) == [d EXCEPT !.playlist =
                            Append(@, Line("#EXT-X-ENDLIST", 0))]
       IN  IF AlreadyCompleted(o.completed)
           THEN UNCHANGED <<objects, fs>>
           ELSE IF HasBuffer(buf)
           THEN /\ objects' = [objects EXCEPT ![id] =
                       [Drained(o) EXCEPT !.completed = TRUE]]
                /\ \E d \in SegmentDurationsOf(buf) :
                       fs' = [fs EXCEPT ![o.segment_dir] =
                           closed(DirWithSegment(dir,
                               NextSegmentCounter(o.segment_counter), buf, d))]
           ELSE /\ objects' = [objects EXCEPT ![id].completed = TRUE]
                /\ fs' = [fs EXCEPT ![o.segment_dir] = closed(dir)]
    /\ UNCHANGED <<oneVars, _sessions, tmp_made, now, jpc, current_time,
                   removed>>

\* HLSSession.set_error: the error is set under the lock, and the call of
\* finalize() under the lock never returns, so the lock stays held.
Mp3SetError(id) ==
    /\ GetHlsSession(id) = id
    /\ objects[id].kind = "mp3"
    /\ objects[id].lock = NoThread
    /\ \E m \in Messages :
           objects' = [objects EXCEPT ![id].error = m, ![id].lock = "caller"]
    /\ UNCHANGED <<oneVars, _sessions, fs, tmp_made, now, jpc, current_time,
                   removed>>

\* HLSSessionFFmpeg.set_error: with self.lock: self.error = error
WithError(o, m) == [o EXCEPT !.error = m]

\* HLSSessionFFmpeg.add_audio_chunk: the chunk is written to ffmpeg's stdin;
\* a write to a closed stdin (ValueError) or to an exited process
\* (BrokenPipeError) is caught and passed to set_error.
AacAddAudioChunk(id) ==
    /\ GetHlsSession(id) = id
    /\ objects[id].kind = "aac"
    /\ objects[id].offered < MaxRegChunks
    /\ LET o == [objects[id] EXCEPT !.offered = @ + 1]
       IN  objects' = [objects EXCEPT ![id] =
               IF o.stdin_closed THEN WithError(o, "write to closed file")
               ELSE IF o.proc_exited THEN WithError(o, "Broken pipe")
               ELSE [o EXCEPT !.piped = @ + 1]]
    /\ UNCHANGED <<oneVars, _sessions, fs, tmp_made, now, jpc, current_time,
                   removed>>

\* HLSSessionFFmpeg.finalize: stdin is closed, then wait(timeout=10) either
\* sees the process exit or raises TimeoutExpired, which goes to set_error;
\* finally completed is set.
AacFinalize(id) ==
    /\ GetHlsSession(id) = id
    /\ objects[id].kind = "aac"
    /\ LET o == [objects[id] EXCEPT !.stdin_closed = TRUE, !.completed = TRUE]
       IN  \/ objects' = [objects EXCEPT ![id] = [o EXCEPT !.proc_exited = TRUE]]
           \/ /\ ~o.proc_exited
              /\ objects' = [objects EXCEPT ![id] =
                     WithError(o, "timed out after 10 seconds")]
    /\ UNCHANGED <<oneVars, _sessions, fs, tmp_made, now, jpc, current_time,
                   removed>>

\* HLSSessionFFmpeg.set_error
AacSetError(id) ==
    /\ GetHlsSession(id) = id
    /\ objects[id].kind = "aac"
    /\ \E m \in Messages :
           objects' = [objects EXCEPT ![id] = WithError(@, m)]
    /\ UNCHANGED <<oneVars, _sessions, fs, tmp_made, now, jpc, current_time,
                   removed>>

\* The ffmpeg process of an aac session exits on its own (it failed on its
\* input, or was killed).
FfmpegExits(id) ==
    /\ id \in DOMAIN objects
    /\ objects[id].kind = "aac"
    /\ ~objects[id].proc_exited
    /\ objects' = [objects EXCEPT ![id].proc_exited = TRUE]
    /\ UNCHANGED <<oneVars, _sessions, fs, tmp_made, now, jpc, current_time,
                   removed>>

\* Time passes.
Tick ==
    /\ now < MaxTicks * TickSeconds
    /\ now' = now + TickSeconds
    /\ UNCHANGED <<oneVars, _sessions, objects, fs, tmp_made, jpc,
                   current_time, removed>>

\* cleanup_loop: time.sleep(60) is over; cleanup_old_sessions starts with
\* current_time = datetime.now() and sessions_to_remove = [].
JanitorWakes ==
    /\ jpc = "sleep"
    /\ current_time' = now
    /\ jpc' = "cleanup_old_sessions"
    /\ removed' = 0
    /\ UNCHANGED <<oneVars, _sessions, objects, fs, tmp_made, now>>

\* Mutant: a session is expired from the timeout on.
ExpiredAtTimeout(age) == age >= HLS_CLEANUP_TIMEOUT

\* if age > HLS_CLEANUP_TIMEOUT
Expired(age) == age > HLS_CLEANUP_TIMEOUT

\* cleanup_old_sessions, its `with _sessions_lock:` block and its return:
\* the expired sessions are collected, popped and cleaned up
\* (temp_dir.cleanup() removes the session's directory); a popped session
\* object is referred to by nothing any more.
CleanupOldSessions ==
    /\ jpc = "cleanup_old_sessions"
    /\ LET sessions_to_remove ==
               {id \in _sessions :
                    Expired(current_time - objects[id].created_at)}
       IN  /\ _sessions' = _sessions \ sessions_to_remove
           /\ fs' = Without(fs, {objects[id].segment_dir :
                                     id \in sessions_to_remove})
           /\ objects' = Without(objects, sessions_to_remove)
           /\ removed' = Cardinality(sessions_to_remove)
    /\ jpc' = "sleep"
    /\ current_time' = 0
    /\ UNCHANGED <<oneVars, tmp_made, now>>

\* The callers of the sessions, the ffmpeg processes, the clock and the
\* janitor thread.
NextReg ==
    \/ CreateHlsSession
    \/ \E id \in SessionIds :
           \/ Mp3AddAudioChunk(id)
           \/ Mp3Finalize(id)
           \/ Mp3SetError(id)
           \/ AacAddAudioChunk(id)
           \/ AacFinalize(id)
           \/ AacSetError(id)
           \/ FfmpegExits(id)
    \/ Tick
    \/ JanitorWakes
    \/ CleanupOldSessions

\* The sessions share the configured segment duration and chunk pattern.
InitReg ==
    /\ Init
    /\ segment_duration = 1000
    /\ stream \in {<<16000>>, <<9215, 1>>}

SpecReg == InitReg /\ [][NextReg]_vars

\* ----------------------------------- the registry lock, step by step
\* Everything but the registry, its lock and the threads that take it.
singleVars == <<sessVars, inVars, thrVars, histVars, rdVars, registered,
                dir_exists, pathVars>>

\* A temporary directory with nothing in it.
EmptyDir == [playlist |-> <<>>, files |-> <<>>]

\* The session object of id is past its __init__.
Constructed(id) == ~(cpc = "__init__" /\ session = id)

\* The playlist ffmpeg writes once its first segment is complete.
FfmpegPlaylist ==
    << Line("#EXTM3U", 0), Line("#EXTINF", segment_duration),
       Line("segment.m4s", 0) >>

\* The key of init.m4a (-hls_fmp4_init_filename) among the files of an aac
\* session's directory; its segments segment000.m4s, segment001.m4s, ...
\* have their numbers as keys.
InitFile == 0 - 1

\* The name of file k in the directory of a session of the given variant.
FileName(kind, k) ==
    IF kind = "mp3" THEN [stem |-> "segment", ext |-> "mp3"]
    ELSE IF k = InitFile THEN [stem |-> "init", ext |-> "m4a"]
    ELSE [stem |-> "segment", ext |-> "m4s"]

\* Mutant: the glob matches every file of the directory.
GlobEveryFile(kind, files) == DOMAIN files

\* self.segment_dir.glob('segment*.m4s')
GlobSegmentM4s(kind, files) ==
    {k \in DOMAIN files :
        FileName(kind, k).stem = "segment" /\ FileName(kind, k).ext = "m4s"}

\* session.segment_counter: the property of HLSSessionFFmpeg counts the
\* files the glob finds, and gives 0 when the directory cannot be listed;
\* HLSSession has the attribute.
SegmentCounterOf(id) ==
    LET o == objects[id]
    IN  IF o.kind = "aac"
        THEN IF o.segment_dir \in DOMAIN fs
             THEN Cardinality(GlobSegmentM4s(o.kind, fs[o.segment_dir].files))
             ELSE 0
        ELSE o.segment_counter

\* The file ffmpeg has finished writing.
WrittenFile == [data |-> <<>>, open |-> FALSE]

\* The directory of an aac session after ffmpeg has completed its next
\* segment: init.m4a is there from the first segment on, and the playlist
\* lists the segment.
DirWithM4sSegment(dir) ==
    LET n == Cardinality(DOMAIN dir.files \ {InitFile})
    IN  [playlist |-> IF dir.playlist = <<>> THEN FfmpegPlaylist
                      ELSE dir.playlist
                           \o << Line("#EXTINF", segment_duration),
                                 Line("segment.m4s", n) >>,
         files |-> Put(Put(dir.files, InitFile, WrittenFile), n, WrittenFile)]

\* create_hls_session: session_id = str(uuid.uuid4()) and the first half of
\* the session's __init__: the temporary directory is made and the fields
\* are set.  Sessions are made while there is time left for them to expire.
CreateConstruct ==
    /\ cpc = "idle"
    /\ tmp_made < MaxSessions
    /\ now + 2 * TickSeconds <= MaxTicks * TickSeconds
    /\ \E codec \in Codecs :
        LET id == NewSessionId(tmp_made)
            dir == NewTempDir(tmp_made)
        IN  /\ objects' = Put(objects, id, NewSession(codec, dir, now))
            /\ fs' = Put(fs, dir, EmptyDir)
            /\ session' = id
    /\ tmp_made' = tmp_made + 1
    /\ cpc' = "__init__"
    /\ UNCHANGED <<singleVars, _sessions, now, jpc, current_time, removed,
                   _sessions_lock, to_remove, popped, swept, got, held>>

\* The end of __init__: self._initialize_playlist() writes the header (mp3),
\* self._start_ffmpeg() starts the process that writes the playlist later
\* (aac).
CreateInitialize ==
    /\ cpc = "__init__"
    /\ fs' = [fs EXCEPT ![objects[session].segment_dir] =
                 NewDir(objects[session].kind)]
    /\ cpc' = "insert"
    /\ UNCHANGED <<singleVars, _sessions, objects, tmp_made, now, jpc,
                   current_time, removed, _sessions_lock, to_remove, popped, swept,
                   session, got, held>>

\* with _sessions_lock: _sessions[session_id] = session
CreateInsert ==
    /\ cpc = "insert"
    /\ _sessions_lock = NoThread
    /\ _sessions' = _sessions \cup {session}
    /\ cpc' = "idle"
    /\ session' = NoSession
    /\ UNCHANGED <<singleVars, objects, fs, tmp_made, now, jpc, current_time,
                   removed, _sessions_lock, to_remove, popped, swept, got, held>>

\* get_hls_session(id) from a request thread: with _sessions_lock:
\* return _sessions.get(session_id); got records what the caller holds and
\* what it finds there.
CallGetHlsSession ==
    /\ _sessions_lock = NoThread
    /\ \E id \in SessionIds :
           got' = IF GetHlsSession(id) = NoSession THEN NothingGot
                  ELSE [session |-> id,
                        constructed |-> Constructed(id),
                        playlist_exists |->
                            fs[objects[id].segment_dir].playlist # <<>>]
    /\ got' # got
    /\ UNCHANGED <<singleVars, regVars, _sessions_lock, to_remove, popped, swept,
                   cpc, session, held>>

\* generate_hls_stream: current_session = get_hls_session(session_id) for the
\* next chunk of an mp3 session.
ProducerGets(id) ==
    /\ _sessions_lock = NoThread
    /\ GetHlsSession(id) = id
    /\ objects[id].kind = "mp3"
    /\ id \notin held
    /\ objects[id].offered < MaxRegChunks
    /\ held' = held \cup {id}
    /\ objects' = [objects EXCEPT ![id].offered = @ + 1]
    /\ UNCHANGED <<singleVars, _sessions, fs, tmp_made, now, jpc,
                   current_time, removed, _sessions_lock, to_remove, popped, swept,
                   cpc, session, got>>

\* current_session.add_audio_chunk(chunk), the whole call with
\* _finalize_segment, in a directory that exists.
ProducerAddsChunk(id) ==
    /\ id \in held
    /\ objects[id].segment_dir \in DOMAIN fs
    /\ LET o == objects[id]
           dir == fs[o.segment_dir]
           buf == AppendChunk(o.current_segment_buffer, o.offered)
           dur == o.current_segment_duration
                    + EstimatedDuration(ChunkLen(o.offered))
       IN  IF ShouldFinalize(dur, Len(buf))
           THEN /\ objects' = [objects EXCEPT ![id] =
                       Drained([o EXCEPT !.current_segment_buffer = buf])]
                /\ \E d \in SegmentDurationsOf(buf) :
                       fs' = [fs EXCEPT ![o.segment_dir] =
                           DirWithSegment(dir, NextSegmentCounter(o.segment_counter),
                                          buf, d)]
           ELSE /\ objects' = [objects EXCEPT ![id] =
                       [o EXCEPT !.current_segment_buffer = buf,
                                 !.current_segment_duration = dur]]
                /\ UNCHANGED fs
    /\ held' = held \ {id}
    /\ UNCHANGED <<singleVars, _sessions, tmp_made, now, jpc, current_time,
                   removed, _sessions_lock, to_remove, popped, swept, cpc, session,
                   got>>

\* add_audio_chunk in a directory that was removed: open(segment_path, 'wb')
\* raises, and generate_hls_stream's handler finds no session to tell.
ProducerAddFails(id) ==
    /\ id \in held
    /\ objects[id].segment_dir \notin DOMAIN fs
    /\ held' = held \ {id}
    /\ UNCHANGED <<singleVars, regVars, _sessions_lock, to_remove, popped, swept,
                   cpc, session, got>>

\* The stream of an mp3 session is exhausted: get_hls_session(session_id),
\* which takes the registry lock, and final_session.finalize().
ProducerFinalizes(id) ==
    /\ _sessions_lock = NoThread
    /\ id \notin held
    /\ Mp3Finalize(id)

\* The ffmpeg process of an aac session completes a segment: it writes the
\* segment file (with init.m4a) and the playlist into its directory.
FfmpegWritesSegment(id) ==
    /\ id \in DOMAIN objects
    /\ Constructed(id)
    /\ objects[id].kind = "aac"
    /\ ~objects[id].proc_exited
    /\ objects[id].segment_dir \in DOMAIN fs
    /\ Cardinality(DOMAIN fs[objects[id].segment_dir].files \ {InitFile})
           < MaxAacSegments
    /\ fs' = [fs EXCEPT ![objects[id].segment_dir] =
                 DirWithM4sSegment(fs[objects[id].segment_dir])]
    /\ UNCHANGED <<singleVars, _sessions, objects, tmp_made, now, jpc,
                   current_time, removed, lockVars>>

RECURSIVE Ascending(_)
\* The ids of a set in the order of list(_sessions.items()): the order in
\* which they were inserted.
Ascending(ids) ==
    IF ids = {} THEN <<>>
    ELSE LET first == CHOOSE x \in ids : \A y \in ids : x <= y
         IN  <<first>> \o Ascending(ids \ {first})

\* cleanup_old_sessions: `with _sessions_lock:` is entered and the first loop
\* collects the expired sessions.
JanitorCollect ==
    /\ jpc = "cleanup_old_sessions"
    /\ _sessions_lock = NoThread
    /\ _sessions_lock' = "janitor"
    /\ to_remove' = Ascending({id \in _sessions :
                        Expired(current_time - objects[id].created_at)})
    /\ removed' = Len(to_remove')
    /\ swept' = {}
    /\ jpc' = "pop"
    /\ UNCHANGED <<singleVars, _sessions, objects, fs, tmp_made, now,
                   current_time, popped, cpc, session, got, held>>

\* The second loop, inside the same `with` block:
\* session = _sessions.pop(session_id, None)
JanitorPop ==
    /\ jpc = "pop"
    /\ to_remove # <<>>
    /\ _sessions' = _sessions \ {Head(to_remove)}
    /\ popped' = Head(to_remove)
    /\ to_remove' = Tail(to_remove)
    /\ jpc' = "cleanup"
    /\ UNCHANGED <<singleVars, objects, fs, tmp_made, now, current_time,
                   removed, _sessions_lock, swept, cpc, session, got, held>>

\* session.cleanup(): temp_dir.cleanup() lists the directory and unlinks
\* what it finds.
JanitorCleanupUnlinks ==
    /\ jpc = "cleanup"
    /\ fs' = [fs EXCEPT ![objects[popped].segment_dir] = EmptyDir]
    /\ jpc' = "rmdir"
    /\ UNCHANGED <<singleVars, _sessions, objects, tmp_made, now,
                   current_time, removed, lockVars>>

\* Mutant: cleanup() lets the error of temp_dir.cleanup() through, and it
\* ends cleanup_old_sessions.
AfterCleanupRaising(failed) == IF failed THEN "raised" ELSE "pop"

\* Where cleanup_old_sessions goes on once session.cleanup() is over:
\* `except Exception` swallows a failure, and the loop takes the next id.
AfterCleanup(failed) == "pop"

\* temp_dir.cleanup() removes the directory; on a directory that is not
\* empty any more rmdir raises OSError, which cleanup() swallows.
JanitorCleanupRmdir ==
    /\ jpc = "rmdir"
    /\ LET dir == objects[popped].segment_dir
       IN  /\ fs' = IF fs[dir] = EmptyDir THEN Without(fs, {dir}) ELSE fs
           /\ jpc' = AfterCleanup(fs[dir] # EmptyDir)
    /\ popped' = NoSession
    /\ swept' = swept \cup {popped}
    /\ UNCHANGED <<singleVars, _sessions, objects, tmp_made, now,
                   current_time, removed, _sessions_lock, to_remove, cpc,
                   session, got, held>>

\* The `with _sessions_lock:` block is left and the function returns
\* len(sessions_to_remove).
JanitorReturns ==
    /\ jpc = "pop"
    /\ to_remove = <<>>
    /\ _sessions_lock' = NoThread
    /\ jpc' = "sleep"
    /\ current_time' = 0
    /\ UNCHANGED <<singleVars, _sessions, objects, fs, tmp_made, now,
                   removed, to_remove, popped, swept, cpc, session, got, held>>

\* One step of the janitor thread.
JanitorStep ==
    \/ JanitorWakes
    \/ JanitorCollect
    \/ JanitorPop
    \/ JanitorCleanupUnlinks
    \/ JanitorCleanupRmdir
    \/ JanitorReturns

\* A thread creating sessions, a request thread looking sessions up, the
\* producers and ffmpeg processes of the sessions, the clock and the janitor.
NextLock ==
    \/ CreateConstruct
    \/ CreateInitialize
    \/ CreateInsert
    \/ CallGetHlsSession
    \/ \E id \in SessionIds :
           \/ ProducerGets(id)
           \/ ProducerAddsChunk(id)
           \/ ProducerAddFails(id)
           \/ ProducerFinalizes(id)
           \/ FfmpegWritesSegment(id)
           \/ FfmpegExits(id)
    \/ Tick
    \/ JanitorStep

\* The sessions share a segment duration of one second; every chunk of the
\* stream fills a segment.
InitLock ==
    /\ Init
    /\ segment_duration = 1000
    /\ stream = <<16000>>

SpecLock == InitLock /\ [][NextLock]_vars

\* The clock advances and the janitor thread keeps running: cleanup_loop
\* sleeps and sweeps for the lifetime of the process.
FairLock == SpecLock /\ WF_vars(Tick) /\ WF_vars(JanitorStep)

\* ------------------------------------------------------ get_segment_path
\* Paths are sequences of components, "/" first for an absolute path.
\* Inputs: the temporary directories of two sessions.
TempDirs == {<<"/", "tmp", "tmpA">>, <<"/", "tmp", "tmpB">>}

\* Inputs: the files a session directory may hold.
DirFiles == {<<"playlist.m3u8">>, <<"segment001.mp3">>}

\* Inputs: the segment_filename arguments: plain names, names with
\* parent-directory components, an absolute path.
SegmentFilenames ==
    { <<"segment001.mp3">>, <<"segment002.mp3">>, <<"playlist.m3u8">>,
      <<"..", "tmpA", "segment001.mp3">>, <<"..", "tmpB", "segment001.mp3">>,
      <<"..", "..", "etc", "passwd">>, <<"sub", "..", "segment001.mp3">>,
      SystemFile }

IsAbsolute(p) == p # <<>> /\ p[1] = "/"

\* The directories that exist: the temporary directories and every ancestor
\* of a temporary directory or of a file.
Directories(files) ==
    {SubSeq(p, 1, n) : p \in (files \cup TempDirs), n \in 1..3} \ files

RECURSIVE Walk(_, _, _)
\* The file or directory the operating system reaches from directory cur
\* along the components rest, NoPath when a component is missing.
Walk(files, cur, rest) ==
    IF rest = <<>> THEN cur
    ELSE IF cur \notin Directories(files) THEN NoPath
    ELSE IF Head(rest) = ".."
         THEN Walk(files, IF Len(cur) > 1 THEN SubSeq(cur, 1, Len(cur) - 1)
                                        ELSE cur, Tail(rest))
    ELSE LET child == Append(cur, Head(rest))
         IN  IF child \in files \cup Directories(files)
             THEN Walk(files, child, Tail(rest))
             ELSE NoPath

\* Where the operating system finds path p (absolute), NoPath if nowhere.
Resolve(files, p) == Walk(files, <<"/">>, Tail(p))

\* Path.exists()
Exists(files, p) == Resolve(files, p) # NoPath

\* self.segment_dir / segment_filename: pathlib drops the left operand when
\* the right one is absolute.
JoinPath(dir, name) == IF IsAbsolute(name) THEN name ELSE dir \o name

\* HLSSession.get_segment_path and HLSSessionFFmpeg.get_segment_path (the
\* same two lines): the joined path if it exists, else None.
get_segment_path(files, dir, name) ==
    IF Exists(files, JoinPath(dir, name)) THEN JoinPath(dir, name) ELSE NoPath

\* A file of a session directory is written (a segment, a playlist) or
\* removed.
DiskChanges ==
    /\ \E dir \in TempDirs, f \in DirFiles :
           disk' = IF (dir \o f) \in disk THEN disk \ {dir \o f}
                   ELSE disk \cup {dir \o f}
    /\ UNCHANGED <<sessVars, inVars, thrVars, histVars, rdVars, regVars,
                   registered, dir_exists, segment_dir, segment_filename,
                   segment_path, lockVars>>

\* session.get_segment_path(segment_filename) on a session of either variant.
CallGetSegmentPath ==
    /\ \E dir \in TempDirs, name \in SegmentFilenames :
           /\ segment_dir' = dir
           /\ segment_filename' = name
           /\ segment_path' = get_segment_path(disk, dir, name)
    /\ UNCHANGED <<sessVars, inVars, thrVars, histVars, rdVars, regVars,
                   registered, dir_exists, disk, lockVars>>

NextPath == DiskChanges \/ CallGetSegmentPath

SpecPath == Init /\ [][NextPath]_vars

\* ======================================================= properties
\* ------------------------------------------------ reading a playlist
IsExtinf(line) == line.tag = "#EXTINF"
IsEndlist(line) == line.tag = "#EXT-X-ENDLIST"
IsSegmentRef(line) == line.tag = "segment.mp3"
IsTarget(line) == line.tag = "#EXT-X-TARGETDURATION"

ExtinfCount(lines) == Len(SelectSeq(lines, IsExtinf))
EndlistCount(lines) == Len(SelectSeq(lines, IsEndlist))
\* The segment numbers the playlist refers to, in file order.
SegmentRefs(lines) ==
    LET refs == SelectSeq(lines, IsSegmentRef)
    IN  [i \in 1..Len(refs) |-> refs[i].val]
\* The value of the #EXT-X-TARGETDURATION line.
TargetOf(lines) == SelectSeq(lines, IsTarget)[1].val
\* A duration of the playlist (milliseconds) rounded up to whole seconds.
CeilSeconds(ms) == (ms + 999) \div 1000

\* The session method thread t called has returned.
Returned(t, method) == op[t] = method /\ pc[t] = "idle"

\* A thread inside a session method can take a step, or waits for a lock
\* another thread holds.
CanProceed(t) ==
    \/ pc[t] = "idle"
    \/ ENABLED SessionStep(t)
    \/ lock \notin {NoThread, t}

\* C1: set_error(msg) on an active MP3 session with k listed segments and an
\* empty pending buffer returns, and then error = msg, completed = true and
\* the playlist is the one before the call plus one #EXT-X-ENDLIST line.
C1_SetErrorReturnsClosed ==
    \A t \in Threads :
        (op[t] = "set_error" /\ ~snap[t].completed /\ snap[t].buffered = 0)
        => /\ CanProceed(t)
           /\ pc[t] = "idle" =>
                 /\ error = message[t]
                 /\ completed
                 /\ playlist = Append(snap[t].playlist, Line("#EXT-X-ENDLIST", 0))

\* set_error never comes back from its call of finalize: the location after
\* that call is not reached.
SetErrorNeverExits == \A t \in Threads : pc[t] # "set_error_exit"

\* The playlist is closed: its last line is the only #EXT-X-ENDLIST.
PlaylistClosed ==
    /\ playlist # <<>>
    /\ IsEndlist(playlist[Len(playlist)])
    /\ EndlistCount(playlist) = 1

\* C2: when an exception reaches generate_hls_stream's handler (the upstream
\* stream raised, or a segment file write raised inside add_audio_chunk or
\* finalize), the session gets the exception as its error and is finalized,
\* and a playlist request made once the error is recorded is answered 500
\* 'HLS generation failed' with the recorded message.
C2_ExceptionFinalizesSession ==
    /\ (pc["t1"] = "gen_except")
          ~> (error = message["t1"] /\ completed /\ PlaylistClosed)
    /\ (error # NoError /\ rpc = "read_state")
          ~> (/\ rpc = "idle"
              /\ response = Response(500, "HLS generation failed", error, <<>>))

\* C3: every playlist request returns a response, whatever the producer
\* thread is doing, and the wait loop runs at most its bound.
C3_PlaylistRequestReturns ==
    /\ [](polls <= MaxPolls)
    /\ (rpc # "idle") ~> (rpc = "idle")

\* C4: a finalize() call on a session that is already completed leaves the
\* playlist, segment_counter and the segment files as they were, with one
\* #EXT-X-ENDLIST line.
C4_FinalizeTwiceSameAsOnce ==
    \A t \in Threads :
        (Returned(t, "finalize") /\ snap[t].completed)
        => /\ playlist = snap[t].playlist
           /\ segment_counter = snap[t].segment_counter
           /\ segment_files = snap[t].segment_files
           /\ EndlistCount(playlist) = 1

C4_Witness ==
    /\ Returned("t1", "finalize")
    /\ snap["t1"].completed
    /\ finalize_calls = 2
    /\ segment_counter >= 1

\* C5: after finalize() on a session that accepted at least one chunk,
\* segment_counter >= 1; when no trigger of add_audio_chunk fired there is
\* exactly one segment and the playlist has one #EXTINF entry and ends with
\* the completion marker.
C5_RemainderDrained ==
    \A t \in Threads :
        (Returned(t, "finalize") /\ accepted >= 1)
        => /\ segment_counter >= 1
           /\ ~trigger_fired =>
                 /\ segment_counter = 1
                 /\ ExtinfCount(playlist) = 1
                 /\ EndlistCount(playlist) = 1
                 /\ IsEndlist(playlist[Len(playlist)])

\* Scenario A: 10 chunks of 1000 bytes, target 1.0 s, then finalize().
C5_Witness ==
    /\ stream = <<1000>>
    /\ segment_duration = 1000
    /\ accepted = 10
    /\ ~trigger_fired
    /\ Returned("t1", "finalize")
    /\ segment_counter = 1

\* C6: with one producer, the buffer holds fewer than 50 chunks whenever
\* add_audio_chunk has returned; a stream of one-byte chunks gets its first
\* segment on the 50th chunk, by the cap and not by the duration estimate.
C6_ChunkCapForcesSegment ==
    /\ pc["t1"] = "idle" => Len(current_segment_buffer) < SAFETY_CHUNK_CAP
    /\ (stream = <<1>> /\ pc["t1"] = "idle" /\ finalize_calls = 0
          /\ op["t1"] # "set_error")
       => /\ segment_counter = accepted \div SAFETY_CHUNK_CAP
          /\ trigger_fired <=> accepted >= SAFETY_CHUNK_CAP
          /\ segment_counter >= 1 => Len(drained[1]) = SAFETY_CHUNK_CAP

\* Scenario B: 60 one-byte chunks.
C6_Witness ==
    /\ stream = <<1>>
    /\ accepted = 60
    /\ pc["t1"] = "idle"
    /\ finalize_calls = 0
    /\ segment_counter = 1
    /\ Len(current_segment_buffer) = 10
    /\ ExtinfCount(playlist) = 1

\* The sequence without its last element.
Front(seq) == SubSeq(seq, 1, Len(seq) - 1)

\* C7: with one producer, whenever add_audio_chunk has returned the buffer's
\* estimate is strictly below segment_duration, and every drained segment
\* was below the target before its last chunk.
C7_EstimateBelowTarget ==
    /\ pc["t1"] = "idle" =>
          /\ current_segment_duration < segment_duration * UnitsPerMs
          /\ current_segment_duration =
                 EstimatedDuration(SumLen(current_segment_buffer))
    /\ \A n \in DOMAIN drained :
          EstimatedDuration(SumLen(Front(drained[n])))
              < segment_duration * UnitsPerMs

\* A segment of several chunks drained by the duration trigger, its estimate
\* over the target.
C7_Witness ==
    /\ pc["t1"] = "idle"
    /\ op["t1"] = "add_audio_chunk"
    /\ 1 \in DOMAIN drained
    /\ Len(drained[1]) > 1
    /\ Len(drained[1]) < SAFETY_CHUNK_CAP
    /\ EstimatedDuration(SumLen(drained[1])) > segment_duration * UnitsPerMs

\* C8: the segment references of the playlist are 1, 2, 3, ... in that
\* order (segment001.mp3, segment002.mp3, ...).
C8_SegmentRefsGapless ==
    \A i \in 1..Len(SegmentRefs(playlist)) : SegmentRefs(playlist)[i] = i

C8_Witness ==
    /\ SegmentRefs(playlist) = <<1, 2>>
    /\ completed

\* The target duration a reader of the playlist is told: that of the file,
\* or, while _update_playlist rewrites the file, that of the lines it writes.
EffectiveTarget ==
    IF playlist # <<>> THEN TargetOf(playlist) ELSE TargetOf(playlist_lines[lock])

\* Every listed segment's duration, rounded up, is at most the target.
TargetCoversEntries(lines) ==
    \A i \in 1..Len(lines) :
        IsExtinf(lines[i]) => TargetOf(lines) >= CeilSeconds(lines[i].val)

\* C9: #EXT-X-TARGETDURATION never decreases, and it is at least the
\* rounded-up duration of every segment listed in the playlist.
C9_TargetDurationMonotone ==
    /\ [](playlist # <<>> => TargetCoversEntries(playlist))
    /\ [][EffectiveTarget' >= EffectiveTarget]_vars

\* The target was raised by a long segment and a shorter one followed.
C9_Witness ==
    /\ ExtinfCount(playlist) >= 2
    /\ TargetOf(playlist) = 6
    /\ \E i \in 1..Len(playlist) : IsExtinf(playlist[i]) /\ playlist[i].val = 400
    /\ playlist[Len(playlist) - 1].val = 400

\* The segment file n is in the session directory, closed, non-empty and
\* holding all the bytes drained for it.
SegmentComplete(n) ==
    /\ n \in DOMAIN segment_files
    /\ ~segment_files[n].open
    /\ segment_files[n].data = drained[n]
    /\ SumLen(segment_files[n].data) > 0

\* C10: at every moment every segment the playlist file refers to exists
\* with its complete bytes, and so does every segment named in a playlist
\* that was served with 200.
C10_ListedSegmentsExist ==
    /\ \A i \in 1..Len(SegmentRefs(playlist)) :
           SegmentComplete(SegmentRefs(playlist)[i])
    /\ response.status = 200 =>
           \A i \in 1..Len(SegmentRefs(response.body)) :
               SegmentComplete(SegmentRefs(response.body)[i])

\* A playlist naming segment 1 was served; the write of segment 2 failed and
\* left a file that the playlist does not name.
C10_Witness ==
    /\ response.status = 200
    /\ SegmentRefs(response.body) = <<1>>
    /\ SegmentRefs(playlist) = <<1>>
    /\ 2 \in DOMAIN segment_files
    /\ segment_files[2].data # drained[2]
    /\ pc["t1"] = "gen_except"

\* The chunks of the sequence are consecutive chunks of the stream, in the
\* order they arrived.
InArrivalOrder(chunks) ==
    \A i \in 1..Len(chunks) : chunks[i] = chunks[1] + (i - 1)

RECURSIVE ConcatSegments(_)
\* The contents of segment files 1..n, one after the other.
ConcatSegments(n) ==
    IF n = 0 THEN <<>> ELSE ConcatSegments(n - 1) \o segment_files[n].data

\* generate_hls_stream has returned after its finalize() call, no error set.
StreamFinalized ==
    /\ pc["t1"] = "gen_done"
    /\ op["t1"] = "finalize"
    /\ error = NoError

\* C12: when generate_hls_stream ended with finalize() and no error, the
\* segment files 1..segment_counter all exist and their concatenation is
\* the sequence of all chunks the upstream stream yielded, in order.
C12_NoChunkDroppedOrReordered ==
    StreamFinalized =>
        /\ DOMAIN segment_files = 1..segment_counter
        /\ ConcatSegments(segment_counter) = [i \in 1..fed |-> i]
        /\ SegmentRefs(playlist) = [i \in 1..segment_counter |-> i]

\* Three chunks went into a first segment drained by the duration trigger
\* and a second one drained by finalize().
C12_Witness ==
    /\ StreamFinalized
    /\ fed = MaxStreamChunks
    /\ segment_counter = 2
    /\ Len(segment_files[1].data) = 2
    /\ completed

\* The response of the distinct empty-playlist failure.
EmptyPlaylistResponse(r) ==
    /\ r.status = 500
    /\ r.error = "HLS playlist is empty (no segments)"

\* C13: finalize() on a session that never received a chunk creates no
\* segment and leaves a playlist with no #EXTINF entry that ends with the
\* completion marker; a playlist request that finds the session completed
\* is then answered with the 500 'HLS playlist is empty (no segments)'.
C13_EmptySessionFlagged ==
    (accepted = 0 /\ error = NoError) =>
        /\ completed =>
              /\ segment_counter = 0
              /\ segment_files = <<>>
              /\ ExtinfCount(playlist) = 0
              /\ PlaylistClosed
        /\ (rpc = "idle" /\ response # NoResponse /\ req.is_completed)
              => EmptyPlaylistResponse(response)

\* Scenario D: the stream ended without a chunk, finalize() ran, and a
\* playlist request made afterwards was answered.
C13_Witness ==
    /\ StreamFinalized
    /\ fed = 0
    /\ completed
    /\ rpc = "idle"
    /\ req.is_completed
    /\ EmptyPlaylistResponse(response)

\* The locations at which a thread waits for the session lock.
LockTaking ==
    {"add_audio_chunk", "_finalize_segment", "_update_playlist", "finalize",
     "fin_endlist", "set_error"}

\* Thread t waits for the session lock, and the lock's holder itself waits
\* for it: the lock is never released and t never gets it.
BlockedForever(t) ==
    /\ pc[t] \in LockTaking
    /\ lock # NoThread
    /\ pc[lock] \in LockTaking

\* The chunk was appended to the pending buffer, now or before a drain.
Buffered(c) ==
    \/ \E i \in 1..Len(current_segment_buffer) : current_segment_buffer[i] = c
    \/ \E n \in DOMAIN drained : \E i \in 1..Len(drained[n]) : drained[n][i] = c

\* C16: an add_audio_chunk call made once the session is completed or has
\* its error set is a no-op: it returns, its chunk is not buffered, and
\* when it has returned segment_counter, the segment files and the playlist
\* are as they were when the session completed.
C16_AddAfterEndIsNoOp ==
    \A t \in Threads :
        (op[t] = "add_audio_chunk" /\ (snap[t].completed \/ snap[t].error # NoError))
        => /\ ~BlockedForever(t)
           /\ ~Buffered(chunk[t])
           /\ (pc[t] = "idle" /\ \A u \in Threads : pc[u] = "idle") =>
                 /\ segment_counter = snap[t].segment_counter
                 /\ segment_files = snap[t].segment_files
                 /\ playlist = snap[t].playlist

\* The completed half of the claim: with one caller, add_audio_chunk on a
\* completed session returns with the session as it was.
AddAfterCompletedIsNoOp ==
    (op["t1"] = "add_audio_chunk" /\ snap["t1"].completed)
    => /\ ~Buffered(chunk["t1"])
       /\ Len(current_segment_buffer) = snap["t1"].buffered
       /\ segment_counter = snap["t1"].segment_counter
       /\ segment_files = snap["t1"].segment_files
       /\ playlist = snap["t1"].playlist

AddAfterCompletedReturned ==
    /\ Returned("t1", "add_audio_chunk")
    /\ snap["t1"].completed
    /\ segment_counter >= 1

\* C19: a failed duration probe, whatever its reason, is recovered inside
\* _get_segment_duration: it never leaves _finalize_segment as an exception
\* and never becomes the session's error.
C19_ProbeFailureRecovered ==
    /\ error # ProbeToolMissing
    /\ \A t \in Threads :
           ~(pc[t] = "gen_except" /\ message[t] = ProbeToolMissing)

\* The segment whose probe failed for want of the tool was written and
\* counted, and is not in the playlist.
ProbeFailureLosesSegment ==
    /\ error = ProbeToolMissing
    /\ segment_counter = 1
    /\ SegmentComplete(1)
    /\ SegmentRefs(playlist) = <<>>

\* The step is the locked block of cleanup_old_sessions.
Sweeping == jpc = "cleanup_old_sessions" /\ jpc' = "sleep"

\* The content of the session's directory.
DirOf(id) == fs[objects[id].segment_dir]

OperationOn(id) ==
    \/ Mp3AddAudioChunk(id)
    \/ Mp3Finalize(id)
    \/ Mp3SetError(id)
    \/ AacAddAudioChunk(id)
    \/ AacFinalize(id)
    \/ AacSetError(id)

\* C15: every operation on one session leaves every other session's fields
\* (pending buffer, segment_counter, completed, error) and its directory
\* (segment files and playlist) unchanged.
C15_SessionsIsolated ==
    [][\A a \in DOMAIN objects :
          OperationOn(a) =>
              \A b \in DOMAIN objects \ {a} :
                  /\ objects'[b] = objects[b]
                  /\ DirOf(b)' = DirOf(b)
      ]_vars

\* Two mp3 sessions in different directories, each with a segment of its
\* own, one of them completed and the other active.
C15_Witness ==
    /\ _sessions = {1, 2}
    /\ objects[1].kind = "mp3" /\ objects[2].kind = "mp3"
    /\ objects[1].segment_dir # objects[2].segment_dir
    /\ objects[1].segment_counter = 1 /\ objects[2].segment_counter = 1
    /\ objects[1].completed /\ ~objects[2].completed
    /\ DirOf(1).playlist # DirOf(2).playlist
    /\ EndlistCount(DirOf(1).playlist) = 1
    /\ EndlistCount(DirOf(2).playlist) = 0

\* C17: completed and errored are terminal for both session variants: a
\* completed session stays completed, an errored one stays errored, and a
\* session that completed without error never gets an error afterwards.
C17_TerminalStates ==
    [][\A id \in DOMAIN objects \cap DOMAIN objects' :
          /\ objects[id].completed => objects'[id].completed
          /\ objects[id].error # NoError => objects'[id].error # NoError
          /\ (objects[id].completed /\ objects[id].error = NoError)
                => objects'[id].error = NoError
      ]_vars

\* A completed mp3 session got an error from a later set_error call.
CompletedMp3BecomesErrored ==
    \E id \in DOMAIN objects :
        /\ objects[id].kind = "mp3"
        /\ objects[id].completed
        /\ objects[id].error = "boom"
        /\ EndlistCount(DirOf(id).playlist) = 1

\* A completed aac session got an error from a later add_audio_chunk call.
CompletedAacBecomesErrored ==
    \E id \in DOMAIN objects :
        /\ objects[id].kind = "aac"
        /\ objects[id].completed
        /\ objects[id].proc_exited
        /\ objects[id].error = "write to closed file"

\* No call on the session is in progress: no caller is inside a method of
\* it holding its lock.
Quiescent(id) == objects[id].lock = NoThread

\* C18: whenever no operation on a session is in progress, of either
\* variant, its error being set implies that it is completed.
C18_ErrorImpliesCompleted ==
    \A id \in DOMAIN objects :
        (Quiescent(id) /\ objects[id].error # NoError) => objects[id].completed

\* An aac session whose ffmpeg process died got the broken pipe as its
\* error from add_audio_chunk and is not completed.
ErroredAacNotCompleted ==
    \E id \in DOMAIN objects :
        /\ objects[id].kind = "aac"
        /\ objects[id].error = "Broken pipe"
        /\ ~objects[id].completed

\* C20: a response sent while the session is not in the registry (its id
\* was never issued, or the janitor evicted it before or during the
\* request), and the response to a segment request whose file does not
\* exist, is a 404 and never a server fault.
C20_UnknownIsNotFound ==
    [][/\ (~registered /\ response' # response) => response'.status = 404
       /\ (rpc = "get_segment_path" /\ rpc' # rpc
              /\ GetSegmentPath(req.segment) = NoSession)
             => response'.status = 404
      ]_vars

\* The session completed with a segment and was evicted while a playlist
\* request was between its locked read and its look at the directory: the
\* request was answered 500 'HLS playlist is empty (no segments)'.
EvictedDuringRequest ==
    /\ ~registered
    /\ rpc = "idle"
    /\ req.is_completed
    /\ req.segment_counter >= 1
    /\ ~req.has_error
    /\ EmptyPlaylistResponse(response)

\* Requests for an evicted session that start after the eviction, and
\* segment requests for a name the session does not have, get their 404.
UnknownAnswered404 ==
    /\ rpc = "idle"
    /\ response.status = 404
    /\ response.error \in {"Session not found", "Segment not found"}

\* The path p is at a file or directory below directory dir.
Inside(files, p, dir) ==
    LET at == Resolve(files, p)
    IN  Len(at) > Len(dir) /\ SubSeq(at, 1, Len(dir)) = dir

\* C21: for every segment name given to get_segment_path, in either session
\* variant, the value returned is None or a path inside the session's own
\* segment directory; a name that is absolute or has a parent-directory
\* component is rejected.
C21_PathStaysInDirectory ==
    segment_path # NoPath
    => /\ Inside(disk, segment_path, segment_dir)
       /\ ~IsAbsolute(segment_filename)
       /\ \A i \in 1..Len(segment_filename) : segment_filename[i] # ".."

\* get_segment_path has returned a path to a file that is outside the
\* session's directory.
PathOutsideReturned ==
    /\ segment_path # NoPath
    /\ ~Inside(disk, segment_path, segment_dir)
    /\ Resolve(disk, segment_path) \in disk

\* The janitor is inside session.cleanup().
Destroying == jpc \in {"cleanup", "rmdir"}

\* C22: cleanup_old_sessions collects the expired sessions under the registry
\* lock and calls cleanup() on them after releasing it: session storage is
\* never being destroyed while _sessions_lock is held.
C22_DestroyOutsideRegistryLock ==
    Destroying => _sessions_lock = NoThread

\* create_hls_session waits for the registry lock while the janitor, holding
\* it, is removing a session's directory.
CreateBlockedByDestroy ==
    /\ Destroying
    /\ _sessions_lock = "janitor"
    /\ cpc = "insert"
    /\ ~ENABLED CreateInsert

\* A step keeps every session id with the object it was issued for, and
\* never registers again an id that has left the registry.
IdsKeepTheirSession ==
    \A id \in DOMAIN objects :
        /\ id \in DOMAIN objects'
        /\ objects'[id].segment_dir = objects[id].segment_dir
        /\ objects'[id].created_at = objects[id].created_at
        /\ objects'[id].kind = objects[id].kind
        /\ (id \notin _sessions /\ session # id) => id \notin _sessions'

\* C23 as stated: a session id maps to at most one session object for the
\* life of the process, and a get_hls_session call that runs concurrently
\* with create_hls_session returns None or a fully constructed session whose
\* playlist file has already been initialised.
C23_GetNeverPartial ==
    [][/\ IdsKeepTheirSession
       /\ got'.session # NoSession
            => (got'.constructed /\ got'.playlist_exists)
      ]_vars

\* C23 as amended: a session id maps to at most one session object for the
\* life of the process, and a get_hls_session call that runs concurrently
\* with create_hls_session returns None or a fully constructed session; the
\* playlist file of an MP3 session has then been initialised, that of an AAC
\* session is written later by ffmpeg.
C23_GetConstructedSession ==
    [][/\ IdsKeepTheirSession
       /\ got'.session # NoSession
            => /\ got'.constructed
               /\ objects'[got'.session].kind = "mp3" => got'.playlist_exists
      ]_vars

\* get_hls_session has returned an MP3 session, with its playlist, while
\* create_hls_session was constructing another session.
C23_Witness ==
    /\ got.session # NoSession
    /\ objects[got.session].kind = "mp3"
    /\ got.constructed
    /\ got.playlist_exists
    /\ cpc = "__init__"
    /\ session # got.session

\* get_hls_session has returned an AAC session that has no playlist file yet.
AacReturnedWithoutPlaylist ==
    /\ got.session # NoSession
    /\ objects[got.session].kind = "aac"
    /\ ~got.playlist_exists

\* C24: whenever serve_hls_playlist answers 200, the playlist it serves has
\* at least one segment reference, whatever the interleaving with the
\* producer thread.
C24_ServedPlaylistHasSegment ==
    response.status = 200 => PlaylistHasSegments(response.body)

\* A 200 whose body is the playlist file as the producer's rewrite had
\* truncated it: no line at all.
EmptyPlaylistServed ==
    /\ response.status = 200
    /\ response.body = <<>>
    /\ pc["t1"] = "upl_write"

\* A 200 with a playlist that lists a segment, sent while the producer was
\* still running.
PlaylistWithSegmentServed ==
    /\ response.status = 200
    /\ PlaylistHasSegments(response.body)
    /\ ~completed

\* C25: if the upstream chunk stream of a session ends without raising and
\* the session is not evicted, generate_hls_stream calls finalize(), and
\* eventually completed is true and the last line of the playlist is
\* #EXT-X-ENDLIST.
C25_StreamEndCompletesSession ==
    (op["t1"] = "finalize") ~> (completed /\ PlaylistClosed)

\* The stream ended, finalize() was called, and the session is completed with
\* its playlist closed.
StreamEndCompleted ==
    /\ op["t1"] = "finalize"
    /\ pc["t1"] = "gen_done"
    /\ completed
    /\ PlaylistClosed

\* Session id has left the registry and its directory is gone.
Released(id) ==
    /\ id \notin _sessions
    /\ id \in DOMAIN objects
    /\ objects[id].segment_dir \notin DOMAIN fs

\* C26: every session inserted in the registry is eventually removed from it
\* and has its storage released: the janitor evicts it once its age exceeds
\* the timeout, whatever its producer does.
C26_EverySessionReleased ==
    \A id \in SessionIds : (id \in _sessions) ~> Released(id)

\* The janitor has evicted a session and is asleep again, and the session's
\* directory is still there, with a file written during the cleanup.
EvictedDirectoryLeft ==
    \E id \in DOMAIN objects :
        /\ id \notin _sessions
        /\ Constructed(id)
        /\ cpc = "idle"
        /\ jpc = "sleep"
        /\ objects[id].segment_dir \in DOMAIN fs
        /\ fs[objects[id].segment_dir].files # <<>>

\* No method of the session has been called yet.
NewlyCreated == \A t \in Threads : op[t] = "none"

\* C27: a newly created MP3 session's playlist is the header only (#EXTM3U,
\* version 3, target duration, playlist type EVENT, media sequence 0) with no
\* segment entry, and its target duration is the configured segment duration
\* rounded up to a whole second, plus one.
C27_InitialPlaylistHeader ==
    NewlyCreated
    => playlist = << Line("#EXTM3U", 0),
                     Line("#EXT-X-VERSION", 3),
                     Line("#EXT-X-TARGETDURATION",
                          CeilSeconds(segment_duration) + 1),
                     Line("#EXT-X-PLAYLIST-TYPE:EVENT", 0),
                     Line("#EXT-X-MEDIA-SEQUENCE", 0) >>

\* A new session with a whole-second duration: its target is the duration
\* plus one and its playlist has five header lines and no entry.
WholeSecondHeader ==
    /\ NewlyCreated
    /\ segment_duration = 1000
    /\ Len(playlist) = 5
    /\ ExtinfCount(playlist) = 0
    /\ TargetOf(playlist) = 2

\* C28: in every state of an MP3 session in which no thread is rewriting the
\* playlist, two concurrent finalize() calls and a finalize() racing a
\* segment append included, the playlist has at most one #EXT-X-ENDLIST
\* line, that line is the last one, and it is there exactly when completed
\* is true (so that, once written, it is never removed).
C28_EndlistOnceLastIffCompleted ==
    lock = NoThread
    => /\ EndlistCount(playlist) <= 1
       /\ EndlistCount(playlist) = 1 => IsEndlist(playlist[Len(playlist)])
       /\ completed <=> EndlistCount(playlist) = 1

\* Two finalize() calls have both appended the completion marker.
EndlistWrittenTwice ==
    /\ lock = NoThread
    /\ EndlistCount(playlist) = 2
    /\ \A t \in Threads : Returned(t, "finalize")

\* The session is completed and every call has returned, but a segment
\* append that was in flight has taken the completion marker away.
EndlistStrippedAfterCompleted ==
    /\ completed
    /\ \A t \in Threads : pc[t] = "idle"
    /\ lock = NoThread
    /\ EndlistCount(playlist) = 0
    /\ ExtinfCount(playlist) > 0

\* Thread t is inside a method of the session.
InSessionCall(t) == stack[t] # <<>>

\* C29: no thread is blocked forever on the session lock: every
\* add_audio_chunk, finalize and set_error call of the producer thread and
\* every playlist request eventually returns, with the session lock
\* released.
C29_NoThreadBlockedForever ==
    /\ InSessionCall("t1") ~> (~InSessionCall("t1") /\ lock = NoThread)
    /\ (rpc # "idle") ~> (rpc = "idle" /\ lock = NoThread)

\* The producer thread waits in set_error's call of finalize() for the lock
\* it holds itself, and the request thread waits for the same lock.
BothBlockedOnSessionLock ==
    /\ lock = "t1"
    /\ pc["t1"] = "finalize"
    /\ rpc \in {"read_state", "wait", "revalidate"}
    /\ ~ENABLED GenStep("t1")
    /\ ~ENABLED ServeStep

\* Segment n is listed in the playlist.
Listed(n) == \E i \in 1..Len(playlist) :
                 IsSegmentRef(playlist[i]) /\ playlist[i].val = n

\* C30: when two threads run _finalize_segment for the same MP3 session
\* concurrently, the playlist entries still appear in increasing
\* sequence-number order, and no reader sees segment n+1 listed while
\* segment n is not listed.
C30_ConcurrentAppendsInOrder ==
    LET refs == SegmentRefs(playlist)
    IN  /\ \A i, j \in 1..Len(refs) : i < j => refs[i] < refs[j]
        /\ \A n \in 1..segment_counter : (n > 1 /\ Listed(n)) => Listed(n - 1)

\* Both callers have returned and the playlist lists segment 2 before
\* segment 1.
SegmentsListedOutOfOrder ==
    /\ \A t \in Threads : Returned(t, "add_audio_chunk")
    /\ lock = NoThread
    /\ SegmentRefs(playlist) = <<2, 1>>

\* C31: a reader of the playlist file that does not take the session lock
\* never finds it truncated or partial while _update_playlist or finalize
\* writes: from one moment to the next the file keeps its header and every
\* entry it had, so an entry a reader has seen never disappears.
C31_UnlockedReaderSeesWholePlaylist ==
    [][/\ playlist' # <<>>
       /\ playlist'[1] = Line("#EXTM3U", 0)
       /\ ExtinfCount(playlist') >= ExtinfCount(playlist)
       /\ \A i \in 1..Len(playlist) :
              IsSegmentRef(playlist[i])
              => \E j \in 1..Len(playlist') : playlist'[j] = playlist[i]
      ]_vars

\* Two 200 responses to the same client: the playlist file lists segment 1,
\* and the request thread is about to send it while the producer has the
\* file truncated for its rewrite.
ListedEntryGoneForReader ==
    /\ rpc = "send"
    /\ pc["t1"] = "upl_write"
    /\ playlist = <<>>
    /\ PlaylistHasSegments(playlist_lines["t1"])
    /\ seg_no["t1"] = 2

\* C32: in an MP3 session the playlist never has more #EXTINF entries than
\* segment_counter, and whenever no _finalize_segment call is in progress the
\* number of playlist entries, segment_counter and the number of segment
\* files in the session directory are equal.
FinalizeSegmentInProgress ==
    \E t \in Threads :
        pc[t] \in {"_finalize_segment", "fs_open", "fs_write",
                   "_get_segment_duration", "_update_playlist", "upl_open",
                   "upl_write"}

C32_EntriesCounterFilesAgree ==
    /\ ExtinfCount(playlist) <= segment_counter
    /\ ~FinalizeSegmentInProgress
       => /\ ExtinfCount(playlist) = segment_counter
          /\ Cardinality(DOMAIN segment_files) = segment_counter

\* The segment file is written and counted, no _finalize_segment call is in
\* progress any more, and the playlist has no entry for it.
CountedSegmentNotListed ==
    /\ ~FinalizeSegmentInProgress
    /\ segment_counter = 1
    /\ 1 \in DOMAIN segment_files
    /\ ~segment_files[1].open
    /\ segment_files[1].data = drained[1]
    /\ ExtinfCount(playlist) = 0

\* C33: _finalize_segment holds the session lock only while it swaps the
\* buffer and while it rewrites the playlist; the file write and the duration
\* probe run with the lock released, so that an add_audio_chunk of another
\* thread on the same session can proceed in the meantime.
WritingOrProbing(t) ==
    pc[t] \in {"fs_open", "fs_write", "_get_segment_duration"}

C33_WriteAndProbeUnlocked ==
    \A t \in Threads :
        /\ WritingOrProbing(t) => lock # t
        /\ lock = t /\ op[t] # "set_error"
           => pc[t] \in {"upl_open", "upl_write"}
        /\ \A u \in Threads \ {t} :
               WritingOrProbing(t) /\ pc[u] = "add_audio_chunk"
               => ENABLED AddAudioChunk(u)

C33_Witness ==
    /\ pc["t1"] = "fs_write"
    /\ segment_files[seg_no["t1"]].open
    /\ pc["t2"] = "add_audio_chunk"
    /\ lock = NoThread
    /\ ENABLED AddAudioChunk("t2")

\* C34: once the janitor has evicted the session, generate_hls_stream takes
\* no further chunk for it and begins no call of finalize or set_error (the
\* one chunk it had looked the session up for may still be fed), whatever
\* the producer was doing when the session was evicted.
ProducerBegins(method) ==
    /\ pc["t1"] \in {"gen_next", "gen_add", "gen_finalize", "gen_except",
                     "gen_set_error"}
    /\ pc'["t1"] = method

C34_EvictedProducerStops ==
    [][~registered
       => /\ ~ProducerBegins("finalize")
          /\ ~ProducerBegins("set_error")
          /\ fed' = fed
      ]_vars

C34_NoChunkTakenAfterEviction == [][~registered => fed' = fed]_vars

\* The session was evicted while the producer was writing a segment: the
\* write raised, the handler found no session, and the function returned.
EvictedDuringWriteReturned ==
    /\ ~registered
    /\ pc["t1"] = "gen_done"
    /\ message["t1"] = DirectoryGone
    /\ error = NoError
    /\ ~completed

\* finalize() runs on the session after it was evicted.
FinalizeCalledAfterEviction ==
    /\ ~registered
    /\ pc["t1"] = "finalize"
    /\ op["t1"] = "finalize"

\* set_error() runs on the session after it was evicted, and the producer
\* thread is stuck in it.
SetErrorCalledAfterEviction ==
    /\ ~registered
    /\ op["t1"] = "set_error"
    /\ pc["t1"] = "finalize"
    /\ lock = "t1"

\* C35: a playlist request for a session whose error is set is answered 500
\* 'HLS generation failed' with the recorded message, when the session has no
\* segment and when it already has segments, and a request that has read the
\* error never goes on to serve the playlist.
ErrorAnswered ==
    /\ rpc = "idle"
    /\ response = Response(500, "HLS generation failed", error, <<>>)

C35_ErrorSessionAnswered500 ==
    /\ (error # NoError /\ rpc = "read_state" /\ segment_counter = 0)
          ~> ErrorAnswered
    /\ (error # NoError /\ rpc = "read_state" /\ segment_counter > 0)
          ~> ErrorAnswered
    /\ [](req.has_error => rpc \notin {"wait", "wait_read", "sleep", "send"})

\* The error is recorded on a session with a listed segment, a playlist
\* request has arrived, and it cannot take the session lock: set_error still
\* holds it.
ErrorSessionRequestBlocked ==
    /\ error # NoError
    /\ segment_counter > 0
    /\ PlaylistHasSegments(playlist)
    /\ rpc = "read_state"
    /\ lock = "t1"
    /\ pc["t1"] = "finalize"
    /\ ~ENABLED ServeStep

\* C36: cleanup() never raises, so a failure to release one session's storage
\* does not end cleanup_old_sessions: the loop goes on to the next id with
\* the registry lock still held, and when the function returns no expired
\* session is left in the registry, cleanup() has run on every session it
\* collected, and the count it returns is their number.
C36_CleanupFailureSwallowed ==
    [][/\ (jpc = "rmdir" /\ jpc' # jpc)
          => /\ jpc' = "pop"
             /\ _sessions_lock' = "janitor"
             /\ to_remove' = to_remove
       /\ (jpc = "pop" /\ jpc' = "sleep")
          => /\ \A id \in _sessions :
                    ~Expired(current_time - objects[id].created_at)
             /\ swept \cap _sessions = {}
             /\ \A id \in swept :
                    Expired(current_time - objects[id].created_at)
             /\ removed = Cardinality(swept)
      ]_vars

\* A run over two expired sessions has returned 2: the first session's
\* directory could not be removed, the second session's directory is gone.
C36_Witness ==
    /\ jpc = "sleep"
    /\ removed = 2
    /\ swept = {1, 2}
    /\ _sessions = {}
    /\ objects[1].segment_dir \in DOMAIN fs
    /\ objects[2].segment_dir \notin DOMAIN fs

\* C37: when probing fails, the duration _get_segment_duration returns for a
\* segment is not lower than the estimate the buffer had of that segment when
\* it was drained: its bytes divided by the 16000 bytes per second of
\* add_audio_chunk.
FallbackReturned(t) ==
    /\ pc[t] = "_get_segment_duration"
    /\ pc'[t] = "_update_playlist"
    /\ actual_duration'[t] =
           FallbackDuration(SumLen(segment_files[seg_no[t]].data),
                            current_segment_duration)

C37_FallbackNotBelowBufferEstimate ==
    [][\A t \in Threads :
           FallbackReturned(t)
           => actual_duration'[t] >= EstimatedDuration(SumLen(drained[seg_no[t]]))
      ]_vars

\* The fallback has returned for a drained buffer of 9216 bytes: 3 s, where
\* the buffer's own estimate was 0.576 s.
C37_Witness ==
    /\ pc["t1"] = "_update_playlist"
    /\ seg_no["t1"] = 1
    /\ SumLen(drained[1]) = 9216
    /\ actual_duration["t1"] = 3 * UnitsPerSecond
    /\ EstimatedDuration(SumLen(drained[1])) < UnitsPerSecond

\* C38: segment_counter of an aac session is always the number of
\* segment*.m4s files now in its directory, and 0 when the directory is gone;
\* segment_counter of an mp3 session never decreases and goes up by exactly
\* one when a buffer that is not empty is drained into a segment file, and
\* at no other time.
M4sFilesPresent(id) ==
    LET dir == objects[id].segment_dir
    IN  IF dir \in DOMAIN fs
        THEN Cardinality({k \in DOMAIN fs[dir].files : k >= 0})
        ELSE 0

\* In this step a segment file that is not empty appeared in the session's
\* directory.
SegmentFileAppeared(id) ==
    LET dir == objects[id].segment_dir
    IN  /\ dir \in DOMAIN fs
        /\ dir \in DOMAIN fs'
        /\ \E n \in DOMAIN fs'[dir].files \ DOMAIN fs[dir].files :
               fs'[dir].files[n].data # <<>>

AacCounterOfRemovedDirectory ==
    \E a \in DOMAIN objects :
        /\ objects[a].kind = "aac"
        /\ objects[a].segment_dir \notin DOMAIN fs
        /\ SegmentCounterOf(a) = 0

====
